---------------------------- MODULE Spec2Model ----------------------------
(***************************************************************************)
(* Urban-Mobility-Data-Explorer: the trip ETL of scripts/etl_fixed.py and  *)
(* scripts/etl.py.                                                         *)
(*                                                                         *)
(*   Spec          the batch loader load_into_mysql (etl_fixed.py) with    *)
(*                 chunked, upsert_parents_for_batch, the failure log and  *)
(*                 the MySQL store it talks to                             *)
(*   SpecValidate  validate_and_transform_row of both scripts, applied to  *)
(*                 raw CSV rows                                            *)
(*                                                                         *)
(* A finite Python float is the rational n/d it stands for, in lowest      *)
(* terms, with nan and the infinities beside them; strings the code        *)
(* inspects character by character are sequences of characters.            *)
(***************************************************************************)
EXTENDS Integers, Sequences, FiniteSets, Bags, TLC

VARIABLES
    \* ---- load_into_mysql(kept_rows, conn, batch_size) ----
    kept_rows,      \* the records passed in
    batch_size,     \* the chunk size passed in
    pc,             \* position of the call
    pos,            \* records consumed so far by the iterator inside chunked
    batch,          \* the chunk being processed
    existing,       \* upsert_parents_for_batch: keys the SELECT returned
    values,         \* the tuples prepared for the chunk
    idx,            \* index of the per-row fallback loop (0-based)
    total,          \* the persisted count
    ret,            \* the value returned
    flog,           \* db/failed_rows.log, a sequence of entries
    \* ---- the store ----
    vendors,        \* committed rows of table vendors, a bag of <<vendor_id, name>>
    payment_types,  \* committed rows of table payment_types, a bag of <<code, label>>
    trips,          \* committed rows of table trips, in insertion order
    tx,             \* the connection's open transaction (uncommitted rows)
    \* ---- history of the run (not program state) ----
    hist,
    \* ---- validate_and_transform_row(row) ----
    variant,        \* which script's validator is applied
    row,            \* the raw CSV row
    vpc,            \* "idle", "ready" (row read, validator not yet called), "done",
                    \* "reread" (the emitted record written, read back and validated again)
    out,            \* what the call produced
    first,          \* the record of the first pass, once it has been written and re-read
    \* ---- main() ----
    raw_iter,       \* the rows of the input, in order
    max_rows,       \* --max-rows (None when not given; etl.py has no such option)
    load_db,        \* --load-db
    i_row,          \* rows taken from raw_iter so far
    excluded,       \* counter of rejected rows
    kept,           \* counter of accepted rows
    written,        \* what write_cleaned_csv returned
    loaded,         \* what load_into_mysql returned
    mpc,            \* position of main
    examined        \* rows main has handed to the validator (not program state)

loaderVars == <<kept_rows, batch_size, pc, pos, batch, existing, values, idx,
                total, ret, flog, vendors, payment_types, trips, tx, hist>>
validateVars == <<variant, row, vpc, out, first>>
mainVars == <<raw_iter, max_rows, load_db, i_row, excluded, kept, written, loaded, mpc, examined>>
vars == <<loaderVars, validateVars, mainVars>>

-----------------------------------------------------------------------------
(* Bounds of the model *)

\* longest record list handed to load_into_mysql
MaxRows == 2
\* largest batch_size handed to load_into_mysql
MaxBatch == 2

-----------------------------------------------------------------------------
(* Python values *)

None == [t |-> "None"]
Str(s) == [t |-> "str", s |-> s]
\* an int held where None may be held too (a return value, an option)
PyInt(n) == [t |-> "int", v |-> n]

Abs(n) == IF n < 0 THEN -n ELSE n

RECURSIVE GCD(_, _)
GCD(a, b) == IF b = 0 THEN a ELSE GCD(b, a % b)

\* a finite float: the rational n/d in lowest terms (d > 0)
Flt(n, d) ==
    LET g == GCD(Abs(n), d)
    IN  [t |-> "float", c |-> "fin", n |-> n \div g, d |-> d \div g]
\* float('nan'), float('inf'), float('-inf')
NaN == [t |-> "float", c |-> "nan", n |-> 0, d |-> 1]
Inf == [t |-> "float", c |-> "inf", n |-> 1, d |-> 1]
NegInf == [t |-> "float", c |-> "inf", n |-> -1, d |-> 1]
\* a one-element tuple, what an expression followed by a comma builds
Tuple1(x) == [t |-> "tuple", e |-> x]

\* truth value of a Python object, as `or` and `if` test it
Truthy(x) ==
    CASE x.t = "None" -> FALSE
      [] x.t = "str" -> x.s # <<>>
      [] x.t = "float" -> x.c # "fin" \/ x.n # 0
      [] x.t = "tuple" -> TRUE

\* x or y
Or(x, y) == IF Truthy(x) THEN x ELSE y

Whitespace == {" "}

RECURSIVE lstrip(_)
lstrip(s) == IF s # <<>> /\ Head(s) \in Whitespace THEN lstrip(Tail(s)) ELSE s

RECURSIVE rstrip(_)
rstrip(s) ==
    IF s # <<>> /\ s[Len(s)] \in Whitespace THEN rstrip(SubSeq(s, 1, Len(s) - 1)) ELSE s

\* str.strip()
strip(s) == rstrip(lstrip(s))

Range(s) == {s[i] : i \in DOMAIN s}


-----------------------------------------------------------------------------
(* The records handed to the loader: what validate_and_transform_row of    *)
(* etl_fixed.py emits (fare 10.0, tip 0.0, payment_type 'unknown').        *)

\* timestamps are text in the format of strftime, with the minute of the day
Trip(vendor, lat, lng, dist, minutes) ==
    [vendor_id |-> vendor,
     pickup_datetime |-> Str(<<"%Y-%m-%d %H:%M:%S", 480>>),
     dropoff_datetime |-> Str(<<"%Y-%m-%d %H:%M:%S", 480 + minutes>>),
     pickup_lat |-> Flt(4075, 100), pickup_lng |-> Flt(-7399, 100),
     dropoff_lat |-> Flt(lat, 100), dropoff_lng |-> Flt(lng, 100),
     distance_km |-> Flt(dist, 1000), duration_min |-> Flt(minutes, 1),
     fare_amount |-> Flt(10, 1), tip_amount |-> Flt(0, 1),
     payment_type |-> Str(<<"unknown">>)]

\* vendor '1'; no vendor and a 0.0 km trip of 5 minutes; vendor ' 2' (leading blank
\* kept by the validator)
RecordPool ==
    { Trip(Str(<<"1">>), 4076, -7397, 2019, 15),
      Trip(None, 4075, -7399, 0, 5),
      Trip(Str(<<" ", "2">>), 4076, -7397, 2019, 15) }

RECURSIVE SeqsUpTo(_, _)
SeqsUpTo(S, n) ==
    IF n = 0 THEN {<<>>}
    ELSE LET shorter == SeqsUpTo(S, n - 1)
         IN  shorter \cup {Append(s, x) : s \in {q \in shorter : Len(q) = n - 1}, x \in S}

BatchSizes == (-1) .. MaxBatch

\* error texts of the store
IntegrityErrors == {"(1062, 'Duplicate entry')"}
OtherErrors == {"(2013, 'Lost connection to MySQL server during query')"}

-----------------------------------------------------------------------------
(* The store: MySQL tables behind one connection with an open transaction *)

NoTx == [vendors |-> EmptyBag, payment_types |-> EmptyBag, trips |-> <<>>]

KeysOf(table) == {r[1] : r \in BagToSet(table)}

\* SELECT key FROM table WHERE key IN (keys), seen from inside the transaction
SelectIn(table, pending, keys) == {k \in keys : k \in KeysOf(table (+) pending)}

\* a variant of InsertIgnore without IGNORE and without a unique key: every row goes in
InsertIgnore_Duplicates(table, pending, rows) == pending (+) SetToBag(rows)

\* INSERT IGNORE INTO table VALUES rows: a row whose key exists is skipped
InsertIgnore(table, pending, rows) ==
    pending (+) SetToBag({r \in rows : r[1] \notin KeysOf(table (+) pending)})

\* conn.rollback()
Rollback == NoTx

-----------------------------------------------------------------------------
(* chunked(iterable, size) *)

\* list(itertools.islice(it, size)) on an iterator that has consumed p items
islice(rows, p, size) ==
    SubSeq(rows, p + 1, IF p + size <= Len(rows) THEN p + size ELSE Len(rows))

-----------------------------------------------------------------------------
(* upsert_parents_for_batch(cur, batch_rows) *)

\* sorted({(r.get('vendor_id') or '').strip() for r in batch_rows if r.get('vendor_id')}), '' dropped
vendor_ids(batch_rows) ==
    {strip(Or(r.vendor_id, Str(<<>>)).s) : r \in {b \in Range(batch_rows) : Truthy(b.vendor_id)}}
        \ {<<>>}

payment_codes(batch_rows) ==
    {strip(Or(r.payment_type, Str(<<>>)).s) : r \in {b \in Range(batch_rows) : Truthy(b.payment_type)}}
        \ {<<>>}

\* a variant of to_insert that does not look at the keys the SELECT found
to_insert_IgnoresExisting(keys, found) == keys

\* to_insert = [v for v in keys if v not in existing]
to_insert(keys, found) == {k \in keys : k \notin found}

\* [(v, 'unknown') for v in to_insert]
Placeholder(keys) == {<<k, "unknown">> : k \in keys}

-----------------------------------------------------------------------------
(* load_into_mysql: the tuple prepared for one record *)

RowValues(r) ==
    << Or(r.vendor_id, None),
       Or(r.pickup_datetime, None),
       Or(r.dropoff_datetime, None),
       Or(r.pickup_lat, None),
       Or(r.pickup_lng, None),
       Or(r.dropoff_lat, None),
       Or(r.dropoff_lng, None),
       Or(r.distance_km, None),
       Or(r.duration_min, None),
       Tuple1(IF r.fare_amount # None THEN r.fare_amount ELSE Flt(10, 1)),
       Tuple1(IF r.tip_amount # None THEN r.tip_amount ELSE Flt(0, 1)),
       IF r.payment_type # None THEN r.payment_type ELSE Str(<<"unknown">>) >>

\* values: one tuple per record of the batch, in order
PrepareTuples(b) == [i \in DOMAIN b |-> RowValues(b[i])]

-----------------------------------------------------------------------------
(* The failure log *)

RunDelimiter == [cls |-> "=== New load run ==="]
ParentEntry(e) == [cls |-> "Parent upsert exception:", tb |-> e]
BatchEntry(e, n) == [cls |-> "Batch IntegrityError:", err |-> e, size |-> n]
FailedRowEntry(i, e, vals) ==
    [cls |-> "Failed row index in batch", idx |-> i, err |-> e, data |-> vals, tb |-> e]
OtherRowEntry(e, vals) ==
    [cls |-> "Other insert exception on single row:", err |-> e, data |-> vals, tb |-> e]
UnexpectedEntry(e) == [cls |-> "Unexpected exception during batch insert:", tb |-> e]

\* what an earlier run left behind: nothing (a fresh deployment), or a log with that
\* run's delimiter and a vendors table with a labelled row
PriorState ==
    { [flog |-> <<>>, vendors |-> EmptyBag],
      [flog |-> <<RunDelimiter>>,
       vendors |-> SetToBag({<<(<<"1">>), "Creative Mobile Technologies">>})] }


-----------------------------------------------------------------------------
(* History of a run, kept beside the program state to state the claims *)

Zeroes(n) == [i \in 1 .. n |-> 0]

HistInit(rows, log0, trips0) ==
    [chunkNo |-> 0,            \* chunks taken from chunked so far
     chunks |-> <<>>,          \* the chunks chunked has yielded, in order
     life |-> <<>>,            \* states the current chunk has passed through
     lo |-> 0,                 \* records before the current chunk
     total0 |-> 0,             \* total when the current chunk was taken
     trips0 |-> Len(trips0),   \* rows in trips when the current chunk was taken
     log0 |-> Len(log0),       \* log entries when the current chunk was taken
     bulkSub |-> Zeroes(Len(rows)),  \* times each record went out in a bulk insert
     rowSub |-> Zeroes(Len(rows)),   \* times each record went out in a single insert
     chunkOf |-> Zeroes(Len(rows)),  \* the chunk each record was put in
     entryChunk |-> [i \in DOMAIN log0 |-> 0],  \* the chunk each log entry was written for
     fate |-> [i \in 1 .. Len(rows) |-> "none"],  \* how each record's insert ended
     pfail |-> [i \in 1 .. Len(rows) |-> FALSE], \* the resolver raised for the record's chunk
     resolved |-> {},          \* batches for which the resolver ran and was committed
     sent |-> {},              \* rows the resolver's INSERT statements carried, this chunk
     rerun |-> FALSE,          \* the current chunk equals a batch already resolved
     parents0 |-> [vendors |-> EmptyBag, payment_types |-> EmptyBag],
                               \* the lookup tables when the current chunk was taken
     bulkRows |-> 0,           \* rows committed by bulk inserts
     singleRows |-> 0,         \* rows committed one by one
     startLog |-> log0,        \* the log when the call started
     startTrips |-> Len(trips0)]

\* the records from..to (1-based, within the current chunk) get value v in f
Mark(f, from, to, v) ==
    [i \in DOMAIN f |-> IF i >= hist.lo + from /\ i <= hist.lo + to THEN v ELSE f[i]]

Log(entry) ==
    /\ flog' = Append(flog, entry)
    /\ hist' = [hist EXCEPT !.entryChunk = Append(@, hist.chunkNo)]

-----------------------------------------------------------------------------
(* Initial states: a call of load_into_mysql about to start, and a raw row  *)
(* about to be validated                                                    *)

LoaderInit ==
    /\ kept_rows \in SeqsUpTo(RecordPool, MaxRows)
    /\ batch_size \in BatchSizes
    /\ pc = "start"
    /\ pos = 0
    /\ batch = <<>>
    /\ existing = {}
    /\ values = <<>>
    /\ idx = 0
    /\ total = 0
    /\ ret = None
    /\ \E prior \in PriorState : flog = prior.flog /\ vendors = prior.vendors
    /\ payment_types = EmptyBag
    /\ trips = <<>>
    /\ tx = NoTx
    /\ hist = HistInit(kept_rows, flog, trips)

LoaderIdle ==
    /\ kept_rows = <<>>
    /\ batch_size = 1
    /\ pc = "idle"
    /\ pos = 0
    /\ batch = <<>>
    /\ existing = {}
    /\ values = <<>>
    /\ idx = 0
    /\ total = 0
    /\ ret = None
    /\ flog = <<>>
    /\ vendors = EmptyBag
    /\ payment_types = EmptyBag
    /\ trips = <<>>
    /\ tx = NoTx
    /\ hist = HistInit(<<>>, <<>>, <<>>)

ValidateIdle ==
    /\ variant = "none"
    /\ row = <<>>
    /\ vpc = "idle"
    /\ out = None
    /\ first = None

MainIdle ==
    /\ raw_iter = <<>>
    /\ max_rows = None
    /\ load_db = FALSE
    /\ i_row = 0
    /\ excluded = 0
    /\ kept = 0
    /\ written = None
    /\ loaded = None
    /\ mpc = "idle"
    /\ examined = 0

-----------------------------------------------------------------------------
(* load_into_mysql *)

\* with open(fail_log_path, "a") as flog: flog.write("=== New load run ===\n"); total = 0
LoadStart ==
    /\ pc = "start"
    /\ Log(RunDelimiter)
    /\ total' = 0
    /\ pc' = "next"
    /\ UNCHANGED <<kept_rows, batch_size, pos, batch, existing, values, idx, ret,
                   vendors, payment_types, trips, tx>>
    /\ UNCHANGED <<validateVars, mainVars>>

\* for batch in chunked(kept_rows, batch_size): the next chunk is not empty
NextChunk ==
    /\ pc = "next"
    /\ batch_size >= 0
    /\ LET chunk == islice(kept_rows, pos, batch_size)
       IN  /\ chunk # <<>>
           /\ batch' = chunk
           /\ pos' = pos + Len(chunk)
           /\ hist' = [hist EXCEPT
                  !.chunkNo = @ + 1,
                  !.chunks = Append(@, chunk),
                  !.life = <<"Pending">>,
                  !.lo = pos,
                  !.total0 = total,
                  !.trips0 = Len(trips),
                  !.log0 = Len(flog),
                  !.sent = {},
                  !.rerun = chunk \in hist.resolved,
                  !.parents0 = [vendors |-> vendors, payment_types |-> payment_types],
                  !.chunkOf = [i \in DOMAIN @ |->
                      IF i > pos /\ i <= pos + Len(chunk) THEN hist.chunkNo + 1 ELSE @[i]]]
    /\ pc' = "v_select"
    /\ UNCHANGED <<kept_rows, batch_size, existing, values, idx, total, ret, flog,
                   vendors, payment_types, trips, tx>>
    /\ UNCHANGED <<validateVars, mainVars>>

\* chunked returns (empty chunk): cur.close(); return total
LoadReturn ==
    /\ pc = "next"
    /\ batch_size >= 0
    /\ islice(kept_rows, pos, batch_size) = <<>>
    /\ ret' = PyInt(total)
    /\ pc' = "done"
    /\ UNCHANGED <<kept_rows, batch_size, pos, batch, existing, values, idx, total, flog,
                   vendors, payment_types, trips, tx, hist>>
    /\ UNCHANGED <<validateVars, mainVars>>

\* itertools.islice refuses a negative size: ValueError leaves load_into_mysql
LoadRaises ==
    /\ pc = "next"
    /\ batch_size < 0
    /\ pc' = "raised"
    /\ UNCHANGED <<kept_rows, batch_size, pos, batch, existing, values, idx, total, ret,
                   flog, vendors, payment_types, trips, tx, hist>>
    /\ UNCHANGED <<validateVars, mainVars>>


-----------------------------------------------------------------------------
(* upsert_parents_for_batch(cur, batch), statement by statement, then       *)
(* conn.commit(); any exception is caught by load_into_mysql                *)

\* vendor_ids computed; if vendor_ids: SELECT vendor_id FROM vendors WHERE vendor_id IN (...)
SelectVendors ==
    /\ pc = "v_select"
    /\ IF vendor_ids(batch) # {}
       THEN /\ existing' = SelectIn(vendors, tx.vendors, vendor_ids(batch))
            /\ pc' = "v_insert"
       ELSE /\ existing' = {}
            /\ pc' = "p_select"
    /\ UNCHANGED <<kept_rows, batch_size, pos, batch, values, idx, total, ret, flog,
                   vendors, payment_types, trips, tx, hist>>
    /\ UNCHANGED <<validateVars, mainVars>>

\* to_insert computed; if to_insert: INSERT IGNORE INTO vendors (vendor_id, name)
InsertVendors ==
    /\ pc = "v_insert"
    /\ LET missing == to_insert(vendor_ids(batch), existing)
       IN  /\ tx' = IF missing # {}
                    THEN [tx EXCEPT !.vendors = InsertIgnore(vendors, @, Placeholder(missing))]
                    ELSE tx
           /\ hist' = [hist EXCEPT !.sent = @ \cup {<<"vendors", k>> : k \in missing}]
    /\ existing' = {}
    /\ pc' = "p_select"
    /\ UNCHANGED <<kept_rows, batch_size, pos, batch, values, idx, total, ret, flog,
                   vendors, payment_types, trips>>
    /\ UNCHANGED <<validateVars, mainVars>>

\* payment_codes computed; if payment_codes: SELECT code FROM payment_types WHERE code IN (...)
SelectPayments ==
    /\ pc = "p_select"
    /\ IF payment_codes(batch) # {}
       THEN /\ existing' = SelectIn(payment_types, tx.payment_types, payment_codes(batch))
            /\ pc' = "p_insert"
       ELSE /\ existing' = {}
            /\ pc' = "p_commit"
    /\ UNCHANGED <<kept_rows, batch_size, pos, batch, values, idx, total, ret, flog,
                   vendors, payment_types, trips, tx, hist>>
    /\ UNCHANGED <<validateVars, mainVars>>

\* to_insert computed; if to_insert: INSERT IGNORE INTO payment_types (code, label)
InsertPayments ==
    /\ pc = "p_insert"
    /\ LET missing == to_insert(payment_codes(batch), existing)
       IN  /\ tx' = IF missing # {}
                    THEN [tx EXCEPT !.payment_types =
                             InsertIgnore(payment_types, @, Placeholder(missing))]
                    ELSE tx
           /\ hist' = [hist EXCEPT !.sent = @ \cup {<<"payment_types", k>> : k \in missing}]
    /\ existing' = {}
    /\ pc' = "p_commit"
    /\ UNCHANGED <<kept_rows, batch_size, pos, batch, values, idx, total, ret, flog,
                   vendors, payment_types, trips>>
    /\ UNCHANGED <<validateVars, mainVars>>

\* conn.commit() after upsert_parents_for_batch
CommitParents ==
    /\ pc = "p_commit"
    /\ vendors' = vendors (+) tx.vendors
    /\ payment_types' = payment_types (+) tx.payment_types
    /\ tx' = NoTx
    /\ hist' = [hist EXCEPT !.life = Append(@, "ParentsResolved"),
                            !.resolved = @ \cup {batch}]
    /\ pc' = "values"
    /\ UNCHANGED <<kept_rows, batch_size, pos, batch, existing, values, idx, total, ret,
                   flog, trips>>
    /\ UNCHANGED <<validateVars, mainVars>>

\* a variant of ParentsException that gives the chunk up
ParentsException_SkipsChunk ==
    /\ pc \in {"v_select", "v_insert", "p_select", "p_insert", "p_commit"}
    /\ \E e \in OtherErrors :
          /\ flog' = Append(flog, ParentEntry(e))
          /\ hist' = [hist EXCEPT !.entryChunk = Append(@, hist.chunkNo),
                                  !.life = Append(@, "ParentsFailed"),
                                  !.pfail = Mark(@, 1, Len(batch), TRUE)]
    /\ tx' = Rollback
    /\ existing' = {}
    /\ pc' = "next"
    /\ UNCHANGED <<kept_rows, batch_size, pos, batch, values, idx, total, ret,
                   vendors, payment_types, trips>>
    /\ UNCHANGED <<validateVars, mainVars>>

\* a variant of ParentsException without conn.rollback()
ParentsException_NoRollback ==
    /\ pc \in {"v_select", "v_insert", "p_select", "p_insert", "p_commit"}
    /\ \E e \in OtherErrors :
          /\ flog' = Append(flog, ParentEntry(e))
          /\ hist' = [hist EXCEPT !.entryChunk = Append(@, hist.chunkNo),
                                  !.life = Append(@, "ParentsFailed"),
                                  !.pfail = Mark(@, 1, Len(batch), TRUE)]
    /\ tx' = tx
    /\ existing' = {}
    /\ pc' = "values"
    /\ UNCHANGED <<kept_rows, batch_size, pos, batch, values, idx, total, ret,
                   vendors, payment_types, trips>>
    /\ UNCHANGED <<validateVars, mainVars>>

\* except Exception: a statement of the resolver or its commit raised;
\* "Parent upsert exception:" and the traceback are logged, then conn.rollback()
ParentsException ==
    /\ pc \in {"v_select", "v_insert", "p_select", "p_insert", "p_commit"}
    /\ \E e \in OtherErrors :
          /\ flog' = Append(flog, ParentEntry(e))
          /\ hist' = [hist EXCEPT !.entryChunk = Append(@, hist.chunkNo),
                                  !.life = Append(@, "ParentsFailed"),
                                  !.pfail = Mark(@, 1, Len(batch), TRUE)]
    /\ tx' = Rollback
    /\ existing' = {}
    /\ pc' = "values"
    /\ UNCHANGED <<kept_rows, batch_size, pos, batch, values, idx, total, ret,
                   vendors, payment_types, trips>>
    /\ UNCHANGED <<validateVars, mainVars>>

-----------------------------------------------------------------------------
(* load_into_mysql: bulk insert of the chunk and the per-row fallback *)

\* values = [...] built from the batch
PrepareValues ==
    /\ pc = "values"
    /\ values' = PrepareTuples(batch)
    /\ pc' = "bulk_exec"
    /\ UNCHANGED <<kept_rows, batch_size, pos, batch, existing, idx, total, ret, flog,
                   vendors, payment_types, trips, tx, hist>>
    /\ UNCHANGED <<validateVars, mainVars>>

\* the rows of the chunk as the store receives them, tagged with their position in kept_rows
Submitted(from, to) == [i \in 1 .. (to - from + 1) |-> [src |-> hist.lo + from + i - 1,
                                                         vals |-> values[from + i - 1]]]

CountSub(sub, from, to) ==
    [i \in DOMAIN sub |-> IF i >= hist.lo + from /\ i <= hist.lo + to THEN sub[i] + 1 ELSE sub[i]]

\* cur.executemany(insert_sql, values) succeeds
BulkExecute ==
    /\ pc = "bulk_exec"
    /\ tx' = [tx EXCEPT !.trips = @ \o Submitted(1, Len(values))]
    /\ hist' = [hist EXCEPT !.life = Append(@, "BulkInsertAttempted"),
                            !.bulkSub = CountSub(@, 1, Len(values))]
    /\ pc' = "bulk_commit"
    /\ UNCHANGED <<kept_rows, batch_size, pos, batch, existing, values, idx, total, ret,
                   flog, vendors, payment_types, trips>>
    /\ UNCHANGED <<validateVars, mainVars>>

\* conn.commit(); total += len(values)
BulkCommit ==
    /\ pc = "bulk_commit"
    /\ trips' = trips \o tx.trips
    /\ vendors' = vendors (+) tx.vendors
    /\ payment_types' = payment_types (+) tx.payment_types
    /\ tx' = NoTx
    /\ total' = total + Len(values)
    /\ hist' = [hist EXCEPT !.life = Append(@, "Committed"),
                            !.fate = Mark(@, 1, Len(values), "Committed"),
                            !.bulkRows = @ + Len(values)]
    /\ pc' = "next"
    /\ UNCHANGED <<kept_rows, batch_size, pos, batch, existing, values, idx, ret, flog>>
    /\ UNCHANGED <<validateVars, mainVars>>

\* a variant of BulkIntegrityError that goes on to the next chunk without the row loop
BulkIntegrityError_NoFallback ==
    /\ pc = "bulk_exec"
    /\ \E e \in IntegrityErrors :
          /\ flog' = Append(flog, BatchEntry(e, Len(values)))
          /\ hist' = [hist EXCEPT !.entryChunk = Append(@, hist.chunkNo),
                                  !.life = @ \o <<"BulkInsertAttempted", "DegradedRetry">>,
                                  !.fate = Mark(@, 1, Len(values), "DegradedRetry"),
                                  !.bulkSub = CountSub(@, 1, Len(values))]
    /\ tx' = Rollback
    /\ idx' = 0
    /\ pc' = "next"
    /\ UNCHANGED <<kept_rows, batch_size, pos, batch, existing, values, total, ret,
                   vendors, payment_types, trips>>
    /\ UNCHANGED <<validateVars, mainVars>>

\* except IntegrityError as e: executemany raised it; rollback, the batch-level
\* entry, then the row loop starts
BulkIntegrityError ==
    /\ pc = "bulk_exec"
    /\ \E e \in IntegrityErrors :
          /\ flog' = Append(flog, BatchEntry(e, Len(values)))
          /\ hist' = [hist EXCEPT !.entryChunk = Append(@, hist.chunkNo),
                                  !.life = @ \o <<"BulkInsertAttempted", "DegradedRetry">>,
                                  !.fate = Mark(@, 1, Len(values), "DegradedRetry"),
                                  !.bulkSub = CountSub(@, 1, Len(values))]
    /\ tx' = Rollback
    /\ idx' = 0
    /\ pc' = "row_exec"
    /\ UNCHANGED <<kept_rows, batch_size, pos, batch, existing, values, total, ret,
                   vendors, payment_types, trips>>
    /\ UNCHANGED <<validateVars, mainVars>>

\* a variant of BulkException that falls back to single-row inserts
BulkException_RetriesRows ==
    /\ pc \in {"bulk_exec", "bulk_commit"}
    /\ \E e \in OtherErrors :
          /\ flog' = Append(flog, UnexpectedEntry(e))
          /\ hist' = [hist EXCEPT
                 !.entryChunk = Append(@, hist.chunkNo),
                 !.life = IF pc = "bulk_exec"
                          THEN @ \o <<"BulkInsertAttempted", "Abandoned">>
                          ELSE Append(@, "Abandoned"),
                 !.fate = Mark(@, 1, Len(values), "Abandoned"),
                 !.bulkSub = IF pc = "bulk_exec" THEN CountSub(@, 1, Len(values)) ELSE @]
    /\ tx' = Rollback
    /\ idx' = 0
    /\ pc' = "row_exec"
    /\ UNCHANGED <<kept_rows, batch_size, pos, batch, existing, values, total, ret,
                   vendors, payment_types, trips>>
    /\ UNCHANGED <<validateVars, mainVars>>

\* a variant of BulkException that counts the rows of the chunk it rolled back
BulkException_CountsRows ==
    /\ pc \in {"bulk_exec", "bulk_commit"}
    /\ \E e \in OtherErrors :
          /\ flog' = Append(flog, UnexpectedEntry(e))
          /\ hist' = [hist EXCEPT
                 !.entryChunk = Append(@, hist.chunkNo),
                 !.life = IF pc = "bulk_exec"
                          THEN @ \o <<"BulkInsertAttempted", "Abandoned">>
                          ELSE Append(@, "Abandoned"),
                 !.fate = Mark(@, 1, Len(values), "Abandoned"),
                 !.bulkSub = IF pc = "bulk_exec" THEN CountSub(@, 1, Len(values)) ELSE @]
    /\ tx' = Rollback
    /\ total' = total + Len(values)
    /\ pc' = "next"
    /\ UNCHANGED <<kept_rows, batch_size, pos, batch, existing, values, idx, ret,
                   vendors, payment_types, trips>>
    /\ UNCHANGED <<validateVars, mainVars>>

\* except Exception as ex: executemany or commit raised something else; rollback,
\* "Unexpected exception during batch insert:", next chunk
BulkException ==
    /\ pc \in {"bulk_exec", "bulk_commit"}
    /\ \E e \in OtherErrors :
          /\ flog' = Append(flog, UnexpectedEntry(e))
          /\ hist' = [hist EXCEPT
                 !.entryChunk = Append(@, hist.chunkNo),
                 !.life = IF pc = "bulk_exec"
                          THEN @ \o <<"BulkInsertAttempted", "Abandoned">>
                          ELSE Append(@, "Abandoned"),
                 !.fate = Mark(@, 1, Len(values), "Abandoned"),
                 !.bulkSub = IF pc = "bulk_exec" THEN CountSub(@, 1, Len(values)) ELSE @]
    /\ tx' = Rollback
    /\ pc' = "next"
    /\ UNCHANGED <<kept_rows, batch_size, pos, batch, existing, values, idx, total, ret,
                   vendors, payment_types, trips>>
    /\ UNCHANGED <<validateVars, mainVars>>

\* where the row loop goes after row i (0-based)
AfterRow(i) == IF i + 1 < Len(values) THEN "row_exec" ELSE "next"

\* cur.execute(insert_sql, single_vals) succeeds
RowExecute ==
    /\ pc = "row_exec"
    /\ tx' = [tx EXCEPT !.trips = @ \o Submitted(idx + 1, idx + 1)]
    /\ hist' = [hist EXCEPT !.rowSub = CountSub(@, idx + 1, idx + 1)]
    /\ pc' = "row_commit"
    /\ UNCHANGED <<kept_rows, batch_size, pos, batch, existing, values, idx, total, ret,
                   flog, vendors, payment_types, trips>>
    /\ UNCHANGED <<validateVars, mainVars>>

\* conn.commit(); total += 1
RowCommit ==
    /\ pc = "row_commit"
    /\ trips' = trips \o tx.trips
    /\ vendors' = vendors (+) tx.vendors
    /\ payment_types' = payment_types (+) tx.payment_types
    /\ tx' = NoTx
    /\ total' = total + 1
    /\ hist' = [hist EXCEPT !.fate = Mark(@, idx + 1, idx + 1, "RowCommitted"),
                            !.singleRows = @ + 1]
    /\ idx' = idx + 1
    /\ pc' = AfterRow(idx)
    /\ UNCHANGED <<kept_rows, batch_size, pos, batch, existing, values, ret, flog>>
    /\ UNCHANGED <<validateVars, mainVars>>

\* a variant of RowIntegrityError that leaves the row loop at the first failing row
RowIntegrityError_LeavesLoop ==
    /\ pc = "row_exec"
    /\ \E e \in IntegrityErrors :
          /\ flog' = Append(flog, FailedRowEntry(idx, e, values[idx + 1]))
          /\ hist' = [hist EXCEPT !.entryChunk = Append(@, hist.chunkNo),
                                  !.fate = Mark(@, idx + 1, idx + 1, "RowFailed"),
                                  !.rowSub = CountSub(@, idx + 1, idx + 1)]
    /\ tx' = Rollback
    /\ idx' = idx + 1
    /\ pc' = "next"
    /\ UNCHANGED <<kept_rows, batch_size, pos, batch, existing, values, total, ret,
                   vendors, payment_types, trips>>
    /\ UNCHANGED <<validateVars, mainVars>>

\* except IntegrityError as ie: rollback, the row is logged with its values
RowIntegrityError ==
    /\ pc = "row_exec"
    /\ \E e \in IntegrityErrors :
          /\ flog' = Append(flog, FailedRowEntry(idx, e, values[idx + 1]))
          /\ hist' = [hist EXCEPT !.entryChunk = Append(@, hist.chunkNo),
                                  !.fate = Mark(@, idx + 1, idx + 1, "RowFailed"),
                                  !.rowSub = CountSub(@, idx + 1, idx + 1)]
    /\ tx' = Rollback
    /\ idx' = idx + 1
    /\ pc' = AfterRow(idx)
    /\ UNCHANGED <<kept_rows, batch_size, pos, batch, existing, values, total, ret,
                   vendors, payment_types, trips>>
    /\ UNCHANGED <<validateVars, mainVars>>

\* a variant of RowException whose rollback reaches back to the start of the chunk,
\* as if the rows of the loop shared one transaction
RowException_UndoesChunk ==
    /\ pc \in {"row_exec", "row_commit"}
    /\ \E e \in OtherErrors :
          /\ flog' = Append(flog, OtherRowEntry(e, values[idx + 1]))
          /\ hist' = [hist EXCEPT
                 !.entryChunk = Append(@, hist.chunkNo),
                 !.fate = Mark(@, idx + 1, idx + 1, "RowError"),
                 !.rowSub = IF pc = "row_exec" THEN CountSub(@, idx + 1, idx + 1) ELSE @]
    /\ tx' = Rollback
    /\ trips' = SubSeq(trips, 1, hist.trips0)
    /\ idx' = idx + 1
    /\ pc' = AfterRow(idx)
    /\ UNCHANGED <<kept_rows, batch_size, pos, batch, existing, values, total, ret,
                   vendors, payment_types>>
    /\ UNCHANGED <<validateVars, mainVars>>

\* except Exception as ex: execute or commit raised something else; rollback, logged
RowException ==
    /\ pc \in {"row_exec", "row_commit"}
    /\ \E e \in OtherErrors :
          /\ flog' = Append(flog, OtherRowEntry(e, values[idx + 1]))
          /\ hist' = [hist EXCEPT
                 !.entryChunk = Append(@, hist.chunkNo),
                 !.fate = Mark(@, idx + 1, idx + 1, "RowError"),
                 !.rowSub = IF pc = "row_exec" THEN CountSub(@, idx + 1, idx + 1) ELSE @]
    /\ tx' = Rollback
    /\ idx' = idx + 1
    /\ pc' = AfterRow(idx)
    /\ UNCHANGED <<kept_rows, batch_size, pos, batch, existing, values, total, ret,
                   vendors, payment_types, trips>>
    /\ UNCHANGED <<validateVars, mainVars>>

-----------------------------------------------------------------------------
(* The loader's specification *)

Init == LoaderInit /\ ValidateIdle /\ MainIdle

Next ==
    \/ LoadStart
    \/ NextChunk
    \/ LoadReturn
    \/ LoadRaises
    \/ SelectVendors
    \/ InsertVendors
    \/ SelectPayments
    \/ InsertPayments
    \/ CommitParents
    \/ ParentsException
    \/ PrepareValues
    \/ BulkExecute
    \/ BulkCommit
    \/ BulkIntegrityError
    \/ BulkException
    \/ RowExecute
    \/ RowCommit
    \/ RowIntegrityError
    \/ RowException

Spec == Init /\ [][Next]_vars

-----------------------------------------------------------------------------
(* Properties of the loader *)

Count(f, v) == Cardinality({i \in DOMAIN f : f[i] = v})

\* the current chunk is done and was retried row by row
ChunkDone == pc \in {"next", "done"} /\ hist.life # <<>>
Degraded == hist.life # <<>> /\ hist.life[Len(hist.life)] = "DegradedRetry"

\* positions in kept_rows of the current chunk's records, and their fates
ChunkRows == (hist.lo + 1) .. (hist.lo + Len(batch))
ChunkFates == [i \in 1 .. Len(batch) |-> hist.fate[hist.lo + i]]

\* what the current chunk added to trips and to the log
ChunkTrips == SubSeq(trips, hist.trips0 + 1, Len(trips))
ChunkLog == SubSeq(flog, hist.log0 + 1, Len(flog))

\* positions in kept_rows of the rows in trips
Persisted == {trips[j].src : j \in DOMAIN trips}

\* the row-level entries of a log
RowEntries(log) ==
    {j \in DOMAIN log : log[j].cls \in {"Failed row index in batch",
                                        "Other insert exception on single row:"}}

\* C1: a chunk of N rows whose bulk insert raised an integrity error: once the
\* row loop is over every row was tried once on its own, the rows persisted from
\* the chunk are exactly those that did not fail (N - K when K rows violate a
\* constraint and none hits another error), total rose by that number, and the
\* log holds one row-level entry per failed row, with the row's index, the tuple
\* built from that row and the error raised.
C1_ChunkDegradation ==
    (ChunkDone /\ Degraded) =>
        LET N == Len(batch)
            K == Count(ChunkFates, "RowFailed")
            J == Count(ChunkFates, "RowError")
        IN  /\ \A i \in ChunkRows : hist.rowSub[i] = 1
            /\ K + J + Count(ChunkFates, "RowCommitted") = N
            /\ Len(ChunkTrips) = N - K - J
            /\ {ChunkTrips[j].src : j \in DOMAIN ChunkTrips}
                   = {i \in ChunkRows : hist.fate[i] = "RowCommitted"}
            /\ total - hist.total0 = N - K - J
            /\ Cardinality({j \in DOMAIN ChunkLog :
                               ChunkLog[j].cls = "Failed row index in batch"}) = K
            /\ Cardinality(RowEntries(ChunkLog)) = K + J
            /\ \A i \in 1 .. N :
                  hist.fate[hist.lo + i] = "RowFailed" =>
                      \E j \in DOMAIN ChunkLog, e \in IntegrityErrors :
                          ChunkLog[j] = FailedRowEntry(i - 1, e, RowValues(kept_rows[hist.lo + i]))

\* C1 witness: a two-row chunk was degraded, its first row failed on a constraint
\* and its second row was then committed
C1_Witness ==
    /\ ChunkDone /\ Degraded
    /\ Len(batch) = 2
    /\ ChunkFates = <<"RowFailed", "RowCommitted">>
    /\ total - hist.total0 = 1

\* C2: the value returned is the number of rows the call added to trips, which
\* is the rows of the chunks whose bulk insert committed plus the rows committed
\* one by one; every row added is a distinct input record, rows of rolled-back
\* chunks and failed rows are not in it, and it never exceeds the input length.
C2_ReturnsCommittedCount ==
    /\ pc # "start" =>
          /\ total = Len(trips) - hist.startTrips
          /\ total = hist.bulkRows + hist.singleRows
          /\ total <= Len(kept_rows)
          /\ Cardinality(Persisted) = Len(trips)
          /\ Persisted = {i \in DOMAIN kept_rows : hist.fate[i] \in {"Committed", "RowCommitted"}}
    /\ pc = "done" => ret = PyInt(total)

\* C2 witness: a finished call whose first chunk was rolled back and whose second
\* chunk was committed row by row returns 1
C2_Witness ==
    /\ pc = "done"
    /\ ret = PyInt(1)
    /\ hist.bulkRows = 0
    /\ hist.singleRows = 1
    /\ \E i \in DOMAIN kept_rows : hist.fate[i] = "Abandoned"


\* rows of a lookup table (committed or pending) that carry key k
KeyCopies(table, k) ==
    LET rows == {r \in BagToSet(table) : r[1] = k}
        RECURSIVE Sum(_)
        Sum(R) == IF R = {} THEN 0
                  ELSE LET r == CHOOSE x \in R : TRUE IN CopiesIn(r, table) + Sum(R \ {r})
    IN  Sum(rows)

\* C4: when the resolver is run on a batch for which an earlier run was committed,
\* its INSERT statements carry no row, it leaves nothing pending and both lookup
\* tables stay as they were; and no key is ever held by two rows of a lookup table.
C4_ParentsIdempotent ==
    /\ \A k \in KeysOf(vendors (+) tx.vendors) : KeyCopies(vendors (+) tx.vendors, k) = 1
    /\ \A k \in KeysOf(payment_types (+) tx.payment_types) :
          KeyCopies(payment_types (+) tx.payment_types, k) = 1
    /\ hist.rerun =>
          /\ hist.sent = {}
          /\ tx.vendors = EmptyBag /\ tx.payment_types = EmptyBag
          /\ vendors = hist.parents0.vendors
          /\ payment_types = hist.parents0.payment_types

\* C4 witness: the second run on a batch that names a vendor has been committed
C4_Witness ==
    /\ hist.rerun
    /\ pc = "values"
    /\ hist.life = <<"Pending", "ParentsResolved">>
    /\ vendor_ids(batch) # {}
    /\ payment_codes(batch) # {}

\* C5 as claimed: whenever the bulk insert of a chunk is about to be issued, the
\* chunk has passed Pending then ParentsResolved (the resolver ran and was
\* committed) and nothing of the resolver is uncommitted.
C5_ResolverCommittedBeforeInsert ==
    pc = "bulk_exec" => (hist.life = <<"Pending", "ParentsResolved">> /\ tx = NoTx)

\* C5 amended: whenever the bulk insert of a chunk is about to be issued, the
\* resolver has run for the chunk and its transaction is closed: committed
\* (ParentsResolved, every key the chunk names is then in the committed lookup
\* tables) or, when the resolver raised, rolled back (ParentsFailed, the lookup
\* tables are as they were); BulkInsertAttempted is only ever entered third.
C5_ResolverClosedBeforeInsert ==
    /\ pc = "bulk_exec" =>
          /\ tx = NoTx
          /\ hist.life \in {<<"Pending", "ParentsResolved">>, <<"Pending", "ParentsFailed">>}
          /\ hist.life[2] = "ParentsResolved" =>
                /\ vendor_ids(batch) \subseteq KeysOf(vendors)
                /\ payment_codes(batch) \subseteq KeysOf(payment_types)
          /\ hist.life[2] = "ParentsFailed" =>
                /\ vendors = hist.parents0.vendors
                /\ payment_types = hist.parents0.payment_types
    /\ \A n \in DOMAIN hist.life :
          hist.life[n] = "BulkInsertAttempted" =>
              n = 3 /\ hist.life[1] = "Pending"
                    /\ hist.life[2] \in {"ParentsResolved", "ParentsFailed"}

\* C5 witness: the bulk insert is about to be issued after the resolver raised
\* with inserted lookup rows pending, which were rolled back
C5_Witness ==
    /\ pc = "bulk_exec"
    /\ hist.life = <<"Pending", "ParentsFailed">>
    /\ hist.sent # {}
    /\ tx = NoTx

\* C6: a chunk whose bulk insert failed with an error that is no integrity error:
\* the failure is logged, the transaction rolled back, none of its rows is ever
\* inserted singly or persisted, total is as before the chunk, the loop is back
\* at taking the next chunk, and the call runs to its end over all the records.
C6_NonIntegrityBulkFailure ==
    /\ \A i \in DOMAIN kept_rows :
          hist.fate[i] = "Abandoned" =>
              hist.rowSub[i] = 0 /\ hist.bulkSub[i] = 1 /\ i \notin Persisted
    /\ (hist.life # <<>> /\ hist.life[Len(hist.life)] = "Abandoned") =>
          /\ pc \in {"next", "done"}
          /\ tx = NoTx
          /\ total = hist.total0
          /\ Len(trips) = hist.trips0
          /\ \E e \in OtherErrors : flog[Len(flog)] = UnexpectedEntry(e)
          /\ RowEntries(ChunkLog) = {}
          /\ (pc = "next" /\ pos < Len(kept_rows)) => ENABLED NextChunk
    /\ (pc = "done" /\ batch_size >= 1) =>
          pos = Len(kept_rows) /\ \A i \in DOMAIN kept_rows : hist.fate[i] # "none"

\* C6 witness: the first chunk was abandoned on such an error and the second
\* chunk was then committed
C6_Witness ==
    /\ pc = "done"
    /\ hist.fate = <<"Abandoned", "Committed">>
    /\ ret = PyInt(1)

\* C7: a chunk for which the resolver raised: a "Parent upsert exception:" entry
\* is the first thing logged for the chunk, the transaction is rolled back (the
\* lookup tables are as before the chunk), and the bulk insert of that chunk is
\* still issued; at the end of a call every record has been through a bulk insert.
C7_ResolverFailureNotFatal ==
    /\ (Len(hist.life) >= 2 /\ hist.life[2] = "ParentsFailed") =>
          /\ \E e \in OtherErrors : flog[hist.log0 + 1] = ParentEntry(e)
          /\ vendors = hist.parents0.vendors
          /\ payment_types = hist.parents0.payment_types
          /\ pc \in {"values", "bulk_exec"} => tx = NoTx
          /\ pc \notin {"values", "bulk_exec"} => \A i \in ChunkRows : hist.bulkSub[i] = 1
    /\ (pc = "done" /\ batch_size >= 1) => \A i \in DOMAIN kept_rows : hist.bulkSub[i] = 1

\* C7 witness: the resolver raised for the first chunk, which was then committed
\* in bulk, and the second chunk was processed too
C7_Witness ==
    /\ pc = "done"
    /\ hist.pfail = <<TRUE, FALSE>>
    /\ hist.fate = <<"Committed", "Committed">>

\* a failure entry written during this call for the chunk record i was put in:
\* a row-level entry carrying the record's tuple, or a batch-level entry
Covered(i) ==
    \E j \in DOMAIN flog :
        /\ j > Len(hist.startLog)
        /\ hist.chunkOf[i] > 0
        /\ hist.entryChunk[j] = hist.chunkOf[i]
        /\ \/ j \in RowEntries(flog) /\ flog[j].data = RowValues(kept_rows[i])
           \/ flog[j].cls \in {"Batch IntegrityError:",
                               "Unexpected exception during batch insert:"}

\* C8 as claimed: when load_into_mysql has returned, every record passed to it is
\* in trips or covered by a failure entry of this run, for every batch size.
C8_EveryRecordAccounted ==
    pc = "done" => \A i \in DOMAIN kept_rows : i \in Persisted \/ Covered(i)

\* the same for batch sizes of at least one
C8_AccountedWhenChunked ==
    (pc = "done" /\ batch_size >= 1) =>
        \A i \in DOMAIN kept_rows : i \in Persisted \/ Covered(i)


-----------------------------------------------------------------------------
(* Arithmetic on floats *)

Pow10(k) == CASE k = 0 -> 1 [] k = 1 -> 10 [] k = 2 -> 100 [] k = 3 -> 1000
              [] k = 4 -> 10000 [] k = 5 -> 100000 [] k = 6 -> 1000000

\* n/d rounded to the nearest integer, ties to even (n >= 0, d > 0)
RoundDiv(n, d) ==
    LET q == n \div d
        r == n % d
    IN  IF 2 * r < d THEN q
        ELSE IF 2 * r > d THEN q + 1
        ELSE IF q % 2 = 0 THEN q ELSE q + 1

\* round(x, k): nan and inf come back unchanged
round(x, k) ==
    IF x.c # "fin" THEN x
    ELSE LET p == Pow10(k)
             sgn == IF x.n < 0 THEN -1 ELSE 1
         IN  IF p % x.d = 0 THEN x
             ELSE IF x.d % p = 0 THEN Flt(sgn * RoundDiv(Abs(x.n), x.d \div p), p)
             ELSE Flt(sgn * RoundDiv(Abs(x.n) * p, x.d), p)

\* x < y and x > y on floats (any comparison with nan is false)
Less(x, y) ==
    CASE x.c = "nan" \/ y.c = "nan" -> FALSE
      [] x.c = "inf" /\ y.c = "inf" -> x.n < y.n
      [] x.c = "inf" -> x.n < 0
      [] y.c = "inf" -> y.n > 0
      [] OTHER -> x.n * y.d < y.n * x.d
Greater(x, y) == Less(y, x)

\* x / 60.0
Div60(x) == IF x.c = "fin" THEN Flt(x.n, x.d * 60) ELSE x

\* x - y, where inf - inf is nan
Minus(x, y) ==
    CASE x.c = "nan" \/ y.c = "nan" -> NaN
      [] x.c = "inf" /\ y.c = "inf" -> IF x.n = y.n THEN NaN ELSE x
      [] x.c = "inf" -> x
      [] y.c = "inf" -> IF y.n > 0 THEN NegInf ELSE Inf
      [] OTHER -> Flt(x.n * y.d - y.n * x.d, x.d * y.d)

-----------------------------------------------------------------------------
(* haversine_distance(lat1, lon1, lat2, lon2), etl_fixed.py *)

\* The formula with r = 6371, evaluated on the coordinates the rows of this model
\* carry: <<lat1, lon1, lat2, lon2, km>>, degrees in 1/100 and km in 1/10000.
HaversineTable ==
    {
      <<0, 0, 0, 0, 0>>, <<0, 0, 0, -7399, 82273126>>, <<0, 0, 0, -7397, 82250887>>,
      <<0, 0, 0, 20000, 177911883>>, <<0, 0, 4075, 0, 45311933>>, <<0, 0, 4075, -7399, 86665038>>,
      <<0, 0, 4075, -7397, 86648479>>, <<0, 0, 4075, 20000, 150544520>>, <<0, 0, 4076, 0, 45323052>>,
      <<0, 0, 4076, -7399, 86667086>>, <<0, 0, 4076, -7397, 86650529>>, <<0, 0, 4076, 20000, 150534808>>,
      <<0, 0, 9500, 0, 105635180>>, <<0, 0, 9500, -7399, 101607043>>, <<0, 0, 9500, -7397, 101608906>>,
      <<0, 0, 9500, 20000, 94851759>>, <<0, -7399, 0, 0, 82273126>>, <<0, -7399, 0, -7399, 0>>,
      <<0, -7399, 0, -7397, 22239>>, <<0, -7399, 0, 20000, 95638756>>, <<0, -7399, 4075, 0, 86665038>>,
      <<0, -7399, 4075, -7399, 45311933>>, <<0, -7399, 4075, -7397, 45311937>>, <<0, -7399, 4075, 20000, 96715521>>,
      <<0, -7399, 4076, 0, 86667086>>, <<0, -7399, 4076, -7399, 45323052>>, <<0, -7399, 4076, -7397, 45323057>>,
      <<0, -7399, 4076, 20000, 96716027>>, <<0, -7399, 9500, 0, 101607043>>, <<0, -7399, 9500, -7399, 105635180>>,
      <<0, -7399, 9500, -7397, 105635180>>, <<0, -7399, 9500, 20000, 100461806>>, <<0, -7397, 0, 0, 82250887>>,
      <<0, -7397, 0, -7399, 22239>>, <<0, -7397, 0, -7397, 0>>, <<0, -7397, 0, 20000, 95660995>>,
      <<0, -7397, 4075, 0, 86648479>>, <<0, -7397, 4075, -7399, 45311937>>, <<0, -7397, 4075, -7397, 45311933>>,
      <<0, -7397, 4075, 20000, 96732351>>, <<0, -7397, 4076, 0, 86650529>>, <<0, -7397, 4076, -7399, 45323057>>,
      <<0, -7397, 4076, -7397, 45323052>>, <<0, -7397, 4076, 20000, 96732854>>, <<0, -7397, 9500, 0, 101608906>>,
      <<0, -7397, 9500, -7399, 105635180>>, <<0, -7397, 9500, -7397, 105635180>>, <<0, -7397, 9500, 20000, 100459872>>,
      <<0, 20000, 0, 0, 177911883>>, <<0, 20000, 0, -7399, 95638756>>, <<0, 20000, 0, -7397, 95660995>>,
      <<0, 20000, 0, 20000, 0>>, <<0, 20000, 4075, 0, 150544520>>, <<0, 20000, 4075, -7399, 96715521>>,
      <<0, 20000, 4075, -7397, 96732351>>, <<0, 20000, 4075, 20000, 45311933>>, <<0, 20000, 4076, 0, 150534808>>,
      <<0, 20000, 4076, -7399, 96716027>>, <<0, 20000, 4076, -7397, 96732854>>, <<0, 20000, 4076, 20000, 45323052>>,
      <<0, 20000, 9500, 0, 94851759>>, <<0, 20000, 9500, -7399, 100461806>>, <<0, 20000, 9500, -7397, 100459872>>,
      <<0, 20000, 9500, 20000, 105635180>>, <<4075, 0, 0, 0, 45311933>>, <<4075, 0, 0, -7399, 86665038>>,
      <<4075, 0, 0, -7397, 86648479>>, <<4075, 0, 0, 20000, 150544520>>, <<4075, 0, 4075, 0, 0>>,
      <<4075, 0, 4075, -7399, 60312926>>, <<4075, 0, 4075, -7397, 60297807>>, <<4075, 0, 4075, 20000, 107302816>>,
      <<4075, 0, 4076, 0, 11119>>, <<4075, 0, 4076, -7399, 60308018>>, <<4075, 0, 4076, -7397, 60292901>>,
      <<4075, 0, 4076, 20000, 107292081>>, <<4075, 0, 9500, 0, 60323248>>, <<4075, 0, 9500, -7399, 56484050>>,
      <<4075, 0, 9500, -7397, 56485872>>, <<4075, 0, 9500, 20000, 49566252>>, <<4075, -7399, 0, 0, 86665038>>,
      <<4075, -7399, 0, -7399, 45311933>>, <<4075, -7399, 0, -7397, 45311937>>, <<4075, -7399, 0, 20000, 96715521>>,
      <<4075, -7399, 4075, 0, 60312926>>, <<4075, -7399, 4075, -7399, 0>>, <<4075, -7399, 4075, -7397, 16847>>,
      <<4075, -7399, 4075, 20000, 69189004>>, <<4075, -7399, 4076, 0, 60308018>>, <<4075, -7399, 4076, -7399, 11119>>,
      <<4075, -7399, 4076, -7397, 20186>>, <<4075, -7399, 4076, 20000, 69183222>>, <<4075, -7399, 9500, 0, 56484050>>,
      <<4075, -7399, 9500, -7399, 60323248>>, <<4075, -7399, 9500, -7397, 60323247>>, <<4075, -7399, 9500, 20000, 55356398>>,
      <<4075, -7397, 0, 0, 86648479>>, <<4075, -7397, 0, -7399, 45311937>>, <<4075, -7397, 0, -7397, 45311933>>,
      <<4075, -7397, 0, 20000, 96732351>>, <<4075, -7397, 4075, 0, 60297807>>, <<4075, -7397, 4075, -7399, 16847>>,
      <<4075, -7397, 4075, -7397, 0>>, <<4075, -7397, 4075, 20000, 69203394>>, <<4075, -7397, 4076, 0, 60292901>>,
      <<4075, -7397, 4076, -7399, 20186>>, <<4075, -7397, 4076, -7397, 11119>>, <<4075, -7397, 4076, 20000, 69197610>>,
      <<4075, -7397, 9500, 0, 56485872>>, <<4075, -7397, 9500, -7399, 60323247>>, <<4075, -7397, 9500, -7397, 60323248>>,
      <<4075, -7397, 9500, 20000, 55354480>>, <<4075, 20000, 0, 0, 150544520>>, <<4075, 20000, 0, -7399, 96715521>>,
      <<4075, 20000, 0, -7397, 96732351>>, <<4075, 20000, 0, 20000, 45311933>>, <<4075, 20000, 4075, 0, 107302816>>,
      <<4075, 20000, 4075, -7399, 69189004>>, <<4075, 20000, 4075, -7397, 69203394>>, <<4075, 20000, 4075, 20000, 0>>,
      <<4075, 20000, 4076, 0, 107292081>>, <<4075, 20000, 4076, -7399, 69183222>>, <<4075, 20000, 4076, -7397, 69197610>>,
      <<4075, 20000, 4076, 20000, 11119>>, <<4075, 20000, 9500, 0, 49566252>>, <<4075, 20000, 9500, -7399, 55356398>>,
      <<4075, 20000, 9500, -7397, 55354480>>, <<4075, 20000, 9500, 20000, 60323248>>, <<4076, 0, 0, 0, 45323052>>,
      <<4076, 0, 0, -7399, 86667086>>, <<4076, 0, 0, -7397, 86650529>>, <<4076, 0, 0, 20000, 150534808>>,
      <<4076, 0, 4075, 0, 11119>>, <<4076, 0, 4075, -7399, 60308018>>, <<4076, 0, 4075, -7397, 60292901>>,
      <<4076, 0, 4075, 20000, 107292081>>, <<4076, 0, 4076, 0, 0>>, <<4076, 0, 4076, -7399, 60303110>>,
      <<4076, 0, 4076, -7397, 60287994>>, <<4076, 0, 4076, 20000, 107281347>>, <<4076, 0, 9500, 0, 60312128>>,
      <<4076, 0, 9500, -7399, 56472996>>, <<4076, 0, 9500, -7397, 56474817>>, <<4076, 0, 9500, 20000, 49555143>>,
      <<4076, -7399, 0, 0, 86667086>>, <<4076, -7399, 0, -7399, 45323052>>, <<4076, -7399, 0, -7397, 45323057>>,
      <<4076, -7399, 0, 20000, 96716027>>, <<4076, -7399, 4075, 0, 60308018>>, <<4076, -7399, 4075, -7399, 11119>>,
      <<4076, -7399, 4075, -7397, 20186>>, <<4076, -7399, 4075, 20000, 69183222>>, <<4076, -7399, 4076, 0, 60303110>>,
      <<4076, -7399, 4076, -7399, 0>>, <<4076, -7399, 4076, -7397, 16845>>, <<4076, -7399, 4076, 20000, 69177439>>,
      <<4076, -7399, 9500, 0, 56472996>>, <<4076, -7399, 9500, -7399, 60312128>>, <<4076, -7399, 9500, -7397, 60312128>>,
      <<4076, -7399, 9500, 20000, 55345351>>, <<4076, -7397, 0, 0, 86650529>>, <<4076, -7397, 0, -7399, 45323057>>,
      <<4076, -7397, 0, -7397, 45323052>>, <<4076, -7397, 0, 20000, 96732854>>, <<4076, -7397, 4075, 0, 60292901>>,
      <<4076, -7397, 4075, -7399, 20186>>, <<4076, -7397, 4075, -7397, 11119>>, <<4076, -7397, 4075, 20000, 69197610>>,
      <<4076, -7397, 4076, 0, 60287994>>, <<4076, -7397, 4076, -7399, 16845>>, <<4076, -7397, 4076, -7397, 0>>,
      <<4076, -7397, 4076, 20000, 69191826>>, <<4076, -7397, 9500, 0, 56474817>>, <<4076, -7397, 9500, -7399, 60312128>>,
      <<4076, -7397, 9500, -7397, 60312128>>, <<4076, -7397, 9500, 20000, 55343433>>, <<4076, 20000, 0, 0, 150534808>>,
      <<4076, 20000, 0, -7399, 96716027>>, <<4076, 20000, 0, -7397, 96732854>>, <<4076, 20000, 0, 20000, 45323052>>,
      <<4076, 20000, 4075, 0, 107292081>>, <<4076, 20000, 4075, -7399, 69183222>>, <<4076, 20000, 4075, -7397, 69197610>>,
      <<4076, 20000, 4075, 20000, 11119>>, <<4076, 20000, 4076, 0, 107281347>>, <<4076, 20000, 4076, -7399, 69177439>>,
      <<4076, 20000, 4076, -7397, 69191826>>, <<4076, 20000, 4076, 20000, 0>>, <<4076, 20000, 9500, 0, 49555143>>,
      <<4076, 20000, 9500, -7399, 55345351>>, <<4076, 20000, 9500, -7397, 55343433>>, <<4076, 20000, 9500, 20000, 60312128>>,
      <<9500, 0, 0, 0, 105635180>>, <<9500, 0, 0, -7399, 101607043>>, <<9500, 0, 0, -7397, 101608906>>,
      <<9500, 0, 0, 20000, 94851759>>, <<9500, 0, 4075, 0, 60323248>>, <<9500, 0, 4075, -7399, 56484050>>,
      <<9500, 0, 4075, -7397, 56485872>>, <<9500, 0, 4075, 20000, 49566252>>, <<9500, 0, 4076, 0, 60312128>>,
      <<9500, 0, 4076, -7399, 56472996>>, <<9500, 0, 4076, -7397, 56474817>>, <<9500, 0, 4076, 20000, 49555143>>,
      <<9500, 0, 9500, 0, 0>>, <<9500, 0, 9500, -7399, 6685681>>, <<9500, 0, 9500, -7397, 6684130>>,
      <<9500, 0, 9500, 20000, 10950142>>, <<9500, -7399, 0, 0, 101607043>>, <<9500, -7399, 0, -7399, 105635180>>,
      <<9500, -7399, 0, -7397, 105635180>>, <<9500, -7399, 0, 20000, 100461806>>, <<9500, -7399, 4075, 0, 56484050>>,
      <<9500, -7399, 4075, -7399, 60323248>>, <<9500, -7399, 4075, -7397, 60323247>>, <<9500, -7399, 4075, 20000, 55356398>>,
      <<9500, -7399, 4076, 0, 56472996>>, <<9500, -7399, 4076, -7399, 60312128>>, <<9500, -7399, 4076, -7397, 60312128>>,
      <<9500, -7399, 4076, 20000, 55345351>>, <<9500, -7399, 9500, 0, 6685681>>, <<9500, -7399, 9500, -7399, 0>>,
      <<9500, -7399, 9500, -7397, 1938>>, <<9500, -7399, 9500, 20000, 7579031>>, <<9500, -7397, 0, 0, 101608906>>,
      <<9500, -7397, 0, -7399, 105635180>>, <<9500, -7397, 0, -7397, 105635180>>, <<9500, -7397, 0, 20000, 100459872>>,
      <<9500, -7397, 4075, 0, 56485872>>, <<9500, -7397, 4075, -7399, 60323247>>, <<9500, -7397, 4075, -7397, 60323248>>,
      <<9500, -7397, 4075, 20000, 55354480>>, <<9500, -7397, 4076, 0, 56474817>>, <<9500, -7397, 4076, -7399, 60312128>>,
      <<9500, -7397, 4076, -7397, 60312128>>, <<9500, -7397, 4076, 20000, 55343433>>, <<9500, -7397, 9500, 0, 6684130>>,
      <<9500, -7397, 9500, -7399, 1938>>, <<9500, -7397, 9500, -7397, 0>>, <<9500, -7397, 9500, 20000, 7580451>>,
      <<9500, 20000, 0, 0, 94851759>>, <<9500, 20000, 0, -7399, 100461806>>, <<9500, 20000, 0, -7397, 100459872>>,
      <<9500, 20000, 0, 20000, 105635180>>, <<9500, 20000, 4075, 0, 49566252>>, <<9500, 20000, 4075, -7399, 55356398>>,
      <<9500, 20000, 4075, -7397, 55354480>>, <<9500, 20000, 4075, 20000, 60323248>>, <<9500, 20000, 4076, 0, 49555143>>,
      <<9500, 20000, 4076, -7399, 55345351>>, <<9500, 20000, 4076, -7397, 55343433>>, <<9500, 20000, 4076, 20000, 60312128>>,
      <<9500, 20000, 9500, 0, 10950142>>, <<9500, 20000, 9500, -7399, 7579031>>, <<9500, 20000, 9500, -7397, 7580451>>,
      <<9500, 20000, 9500, 20000, 0>>
    }

Hundredths(x) == x.n * (100 \div x.d)

\* [raised |-> a ValueError left the function, km |-> the distance returned]:
\* math.cos of an infinite latitude and math.sin of an infinite dlon raise
\* "math domain error"; nan goes through sin, cos, sqrt and asin as nan
haversine_distance(lat1, lon1, lat2, lon2) ==
    LET dlon == Minus(lon2, lon1)
    IN  IF lat1.c = "inf" \/ lat2.c = "inf" \/ dlon.c = "inf"
        THEN [raised |-> TRUE, km |-> NaN]
        ELSE IF "nan" \in {lat1.c, lon1.c, lat2.c, lon2.c, dlon.c}
        THEN [raised |-> FALSE, km |-> NaN]
        ELSE LET e == CHOOSE r \in HaversineTable :
                          /\ r[1] = Hundredths(lat1) /\ r[2] = Hundredths(lon1)
                          /\ r[3] = Hundredths(lat2) /\ r[4] = Hundredths(lon2)
             IN  [raised |-> FALSE, km |-> Flt(e[5], 10000)]


-----------------------------------------------------------------------------
(* Raw CSV text. A field value is a str whose content is a sequence of      *)
(* tokens: <<format, minute>> for a timestamp written in that format,       *)
(* <<"float", n, d>> for a decimal literal of value n/d, <<"nan">>,         *)
(* <<"inf">>, <<"-inf">>, <<>> for the empty string, anything else for text *)
(* that is neither. csv.DictReader gives None for a field a short line      *)
(* lacks.                                                                   *)

TsText(fmt, tm) == Str(<<fmt, tm>>)
NumText(n, d) == Str(<<"float", n, d>>)
Empty == Str(<<>>)
Garbage == Str(<<"abc">>)

\* row.get(key, default) and row.get(key)
Get(r, key, default) == IF key \in DOMAIN r THEN r[key] ELSE default
GetOrNone(r, key) == Get(r, key, None)

\* datetime.strptime(val, fmt) for the three formats tried in turn
StrptimeFormats == <<"%Y-%m-%d %H:%M:%S", "%Y-%m-%dT%H:%M:%S", "%m/%d/%Y %H:%M:%S">>

\* what else datetime.fromisoformat reads: other ISO-8601 forms without an
\* offset ("iso"), and forms with a UTC offset ("iso+tz"), which give an aware datetime
IsoOnlyFormats == {"iso", "iso+tz"}

\* parse_dt(val): [ok |-> FALSE] when every attempt raised, else the datetime
parse_dt(val) ==
    IF val.t = "str" /\ Len(val.s) = 2 /\ val.s[1] \in Range(StrptimeFormats)
    THEN [ok |-> TRUE, aware |-> FALSE, tm |-> val.s[2]]
    ELSE IF val.t = "str" /\ Len(val.s) = 2 /\ val.s[1] \in IsoOnlyFormats
    THEN [ok |-> TRUE, aware |-> val.s[1] = "iso+tz", tm |-> val.s[2]]
    ELSE [ok |-> FALSE, aware |-> FALSE, tm |-> 0]

\* dt.strftime('%Y-%m-%d %H:%M:%S')
strftime(dt) == TsText("%Y-%m-%d %H:%M:%S", dt.tm)

\* float(val): [ok |-> FALSE] when it raises (ValueError, or TypeError for None)
float(val) ==
    IF val.t # "str" \/ val.s = <<>> THEN [ok |-> FALSE, x |-> NaN]
    ELSE CASE val.s[1] = "float" -> [ok |-> TRUE, x |-> Flt(val.s[2], val.s[3])]
           [] val.s[1] = "nan" -> [ok |-> TRUE, x |-> NaN]
           [] val.s[1] = "inf" -> [ok |-> TRUE, x |-> Inf]
           [] val.s[1] = "-inf" -> [ok |-> TRUE, x |-> NegInf]
           [] OTHER -> [ok |-> FALSE, x |-> NaN]

\* rejection reasons: the text is prefix \o key
Reason(prefix, key) == [prefix |-> prefix, key |-> key]
\* k.startswith('invalid_') or k.startswith('out_of_range_')
IsParseReason(k) == k.prefix \in {"invalid_", "out_of_range_"}

\* to_float(val, key, min_v, max_v): the value returned and the reasons appended
to_float(val, key, min_v, max_v) ==
    LET f == float(val)
    IN  IF ~f.ok THEN [x |-> Flt(0, 1), reasons |-> <<Reason("invalid_", key)>>]
        ELSE [x |-> f.x,
              reasons |->
                  (IF min_v # None /\ Less(f.x, min_v)
                   THEN <<Reason("out_of_range_", key)>> ELSE <<>>)
                  \o (IF max_v # None /\ Greater(f.x, max_v)
                      THEN <<Reason("out_of_range_", key)>> ELSE <<>>)]

\* what a call produced: a (record, reasons) pair, or an exception that left it
Returned(rec, reasons) == [kind |-> "returned", rec |-> rec, reasons |-> reasons]
Raised(exc) == [kind |-> "raised", exc |-> exc]
\* {}
EmptyDict == <<>>

\* the gate with only the pickup timestamp's parse failure caught
TimestampGate_PickupOnly(r) ==
    LET pickup == parse_dt(Get(r, "pickup_datetime", Empty))
        dropoff == parse_dt(Get(r, "dropoff_datetime", Empty))
    IN  IF ~pickup.ok
        THEN Returned(EmptyDict, <<Reason("invalid_", "timestamp")>>)
        ELSE IF pickup.aware # dropoff.aware
        THEN Raised("TypeError")
        ELSE IF dropoff.tm <= pickup.tm
        THEN Returned(EmptyDict, <<Reason("", "non_positive_duration")>>)
        ELSE Returned(EmptyDict, <<>>)

\* the gate with dropoff < pickup in place of dropoff <= pickup
TimestampGate_StrictlyEarlier(r) ==
    LET pickup == parse_dt(Get(r, "pickup_datetime", Empty))
        dropoff == parse_dt(Get(r, "dropoff_datetime", Empty))
    IN  IF ~pickup.ok \/ ~dropoff.ok
        THEN Returned(EmptyDict, <<Reason("invalid_", "timestamp")>>)
        ELSE IF pickup.aware # dropoff.aware
        THEN Raised("TypeError")
        ELSE IF dropoff.tm < pickup.tm
        THEN Returned(EmptyDict, <<Reason("", "non_positive_duration")>>)
        ELSE Returned(EmptyDict, <<>>)

\* the timestamp gates both validators start with; dropoff <= pickup raises
\* TypeError when one datetime is aware and the other is not
TimestampGate(r) ==
    LET pickup == parse_dt(Get(r, "pickup_datetime", Empty))
        dropoff == parse_dt(Get(r, "dropoff_datetime", Empty))
    IN  IF ~pickup.ok \/ ~dropoff.ok
        THEN Returned(EmptyDict, <<Reason("invalid_", "timestamp")>>)
        ELSE IF pickup.aware # dropoff.aware
        THEN Raised("TypeError")
        ELSE IF dropoff.tm <= pickup.tm
        THEN Returned(EmptyDict, <<Reason("", "non_positive_duration")>>)
        ELSE Returned(EmptyDict, <<>>)

\* a variant of PlausibilityGates whose gates fire at the thresholds too
PlausibilityGates_AtThreshold(distance_km, duration_min) ==
    (IF ~Less(distance_km, Flt(100, 1))
     THEN <<Reason("", "unrealistic_distance")>> ELSE <<>>)
    \o (IF ~Less(duration_min, Flt(180, 1))
        THEN <<Reason("", "unrealistic_duration")>> ELSE <<>>)
    \o (IF ~Greater(distance_km, Flt(1, 10)) /\ ~Less(duration_min, Flt(10, 1))
        THEN <<Reason("", "suspicious_trip")>> ELSE <<>>)

\* "Filter out unrealistic trips": the reasons the three gates append
PlausibilityGates(distance_km, duration_min) ==
    (IF Greater(distance_km, Flt(100, 1))
     THEN <<Reason("", "unrealistic_distance")>> ELSE <<>>)
    \o (IF Greater(duration_min, Flt(180, 1))
        THEN <<Reason("", "unrealistic_duration")>> ELSE <<>>)
    \o (IF Less(distance_km, Flt(1, 10)) /\ Greater(duration_min, Flt(10, 1))
        THEN <<Reason("", "suspicious_trip")>> ELSE <<>>)

\* a variant of Defaults that takes the payment type of the row when it has one
Defaults_FromRow(r) ==
    [fare_amount |-> Flt(10, 1), tip_amount |-> Flt(0, 1),
     payment_type |-> Or(GetOrNone(r, "payment_type"), Str(<<"unknown">>))]

\* "Set default values for missing fields": three constants, the row is not consulted
Defaults(r) ==
    [fare_amount |-> Flt(10, 1), tip_amount |-> Flt(0, 1), payment_type |-> Str(<<"unknown">>)]

\* validate_and_transform_row(row) of etl_fixed.py
validate_fixed(r) ==
    LET gate == TimestampGate(r)
        pickup == parse_dt(Get(r, "pickup_datetime", Empty))
        dropoff == parse_dt(Get(r, "dropoff_datetime", Empty))
        pickup_lat == to_float(Get(r, "pickup_latitude", Empty), "pickup_lat", Flt(-90, 1), Flt(90, 1))
        pickup_lng == to_float(Get(r, "pickup_longitude", Empty), "pickup_lng", Flt(-180, 1), Flt(180, 1))
        dropoff_lat == to_float(Get(r, "dropoff_latitude", Empty), "dropoff_lat", Flt(-90, 1), Flt(90, 1))
        dropoff_lng == to_float(Get(r, "dropoff_longitude", Empty), "dropoff_lng", Flt(-180, 1), Flt(180, 1))
        trip_duration_seconds ==
            to_float(Get(r, "trip_duration", Empty), "trip_duration", Flt(1, 1), Flt(24 * 3600, 1))
        duration_min == Div60(trip_duration_seconds.x)
        hav == haversine_distance(pickup_lat.x, pickup_lng.x, dropoff_lat.x, dropoff_lng.x)
        distance_km == IF hav.raised THEN Flt(0, 1) ELSE hav.km
        fare_amount == Defaults(r).fare_amount
        tip_amount == Defaults(r).tip_amount
        payment_type == Defaults(r).payment_type
        parsed == pickup_lat.reasons \o pickup_lng.reasons \o dropoff_lat.reasons
                      \o dropoff_lng.reasons \o trip_duration_seconds.reasons
                      \o (IF hav.raised THEN <<Reason("invalid_", "coordinates")>> ELSE <<>>)
        reasons == parsed \o PlausibilityGates(distance_km, duration_min)
    IN  IF gate.kind = "raised" \/ gate.reasons # <<>> THEN gate
        ELSE IF \E k \in Range(parsed) : IsParseReason(k) THEN Returned(EmptyDict, parsed)
        ELSE IF reasons # <<>> THEN Returned(EmptyDict, reasons)
        ELSE Returned(
                 [vendor_id |-> Or(GetOrNone(r, "vendor_id"), None),
                  pickup_datetime |-> strftime(pickup),
                  dropoff_datetime |-> strftime(dropoff),
                  pickup_lat |-> round(pickup_lat.x, 6),
                  pickup_lng |-> round(pickup_lng.x, 6),
                  dropoff_lat |-> round(dropoff_lat.x, 6),
                  dropoff_lng |-> round(dropoff_lng.x, 6),
                  distance_km |-> round(distance_km, 3),
                  duration_min |-> round(duration_min, 3),
                  fare_amount |-> round(fare_amount, 2),
                  tip_amount |-> round(tip_amount, 2),
                  payment_type |-> payment_type],
                 reasons)

\* validate_and_transform_row(row) of etl.py
validate_etl(r) ==
    LET gate == TimestampGate(r)
        pickup == parse_dt(Get(r, "pickup_datetime", Empty))
        dropoff == parse_dt(Get(r, "dropoff_datetime", Empty))
        pickup_lat == to_float(Get(r, "pickup_lat", Empty), "pickup_lat", Flt(-90, 1), Flt(90, 1))
        pickup_lng == to_float(Get(r, "pickup_lng", Empty), "pickup_lng", Flt(-180, 1), Flt(180, 1))
        dropoff_lat == to_float(Get(r, "dropoff_lat", Empty), "dropoff_lat", Flt(-90, 1), Flt(90, 1))
        dropoff_lng == to_float(Get(r, "dropoff_lng", Empty), "dropoff_lng", Flt(-180, 1), Flt(180, 1))
        distance_km == to_float(Get(r, "distance_km", Empty), "distance_km", Flt(0, 1), Flt(200, 1))
        duration_min == to_float(Get(r, "duration_min", Empty), "duration_min", Flt(1, 100), Flt(24 * 60, 1))
        fare_amount == to_float(Get(r, "fare_amount", Empty), "fare_amount", Flt(0, 1), None)
        tip_amount == to_float(Get(r, "tip_amount", Empty), "tip_amount", Flt(0, 1), None)
        reasons == pickup_lat.reasons \o pickup_lng.reasons \o dropoff_lat.reasons
                       \o dropoff_lng.reasons \o distance_km.reasons \o duration_min.reasons
                       \o fare_amount.reasons \o tip_amount.reasons
    IN  IF gate.kind = "raised" \/ gate.reasons # <<>> THEN gate
        ELSE IF \E k \in Range(reasons) : IsParseReason(k) THEN Returned(EmptyDict, reasons)
        ELSE Returned(
                 [vendor_id |-> Or(GetOrNone(r, "vendor_id"), None),
                  pickup_datetime |-> strftime(pickup),
                  dropoff_datetime |-> strftime(dropoff),
                  pickup_lat |-> round(pickup_lat.x, 6),
                  pickup_lng |-> round(pickup_lng.x, 6),
                  dropoff_lat |-> round(dropoff_lat.x, 6),
                  dropoff_lng |-> round(dropoff_lng.x, 6),
                  distance_km |-> round(distance_km.x, 3),
                  duration_min |-> round(duration_min.x, 3),
                  fare_amount |-> round(fare_amount.x, 2),
                  tip_amount |-> round(tip_amount.x, 2),
                  payment_type |-> Or(GetOrNone(r, "payment_type"), None)],
                 reasons)

-----------------------------------------------------------------------------
(* Raw rows handed to the validators: csv.DictReader rows, a dict from the  *)
(* header's names to text.                                                  *)

\* how many fields of a row differ from a well-formed row, besides its timestamps
MaxOddFields == 1

Absent == [t |-> "absent"]

FmtYmd == StrptimeFormats[1]
FmtIsoT == StrptimeFormats[2]
FmtMdy == StrptimeFormats[3]

\* <<pickup_datetime, dropoff_datetime>>; minutes of 2023-01-01, 480 is 08:00
TimestampPairs ==
    { <<TsText(FmtYmd, 480), TsText(FmtYmd, 495)>>,
      <<TsText(FmtIsoT, 480), TsText(FmtMdy, 495)>>,
      <<TsText("iso", 480), TsText(FmtYmd, 495)>>,
      <<TsText("iso+tz", 480), TsText("iso+tz", 495)>>,
      <<TsText(FmtYmd, 480), TsText(FmtYmd, 480)>>,
      <<TsText(FmtYmd, 480), TsText(FmtIsoT, 470)>>,
      <<TsText("iso+tz", 480), TsText("iso+tz", 470)>>,
      <<TsText("iso", 495), TsText(FmtMdy, 495)>>,
      <<TsText("iso+tz", 480), TsText(FmtYmd, 495)>>,
      <<TsText(FmtYmd, 480), TsText("iso+tz", 470)>>,
      <<Garbage, TsText(FmtYmd, 495)>>,
      <<TsText(FmtYmd, 480), Empty>>,
      <<None, TsText(FmtYmd, 495)>>,
      <<Absent, Absent>> }

Latitudes == {"pickup_lat", "dropoff_lat", "pickup_latitude", "dropoff_latitude"}
Longitudes == {"pickup_lng", "dropoff_lng", "pickup_longitude", "dropoff_longitude"}
Fields ==
    Latitudes \cup Longitudes
        \cup {"distance_km", "duration_min", "trip_duration", "fare_amount", "tip_amount",
              "vendor_id", "payment_type"}

\* the odd values a field may carry instead
Odd(key) ==
    CASE key \in Latitudes ->
             {NumText(95, 1), NumText(0, 1), Str(<<"nan">>), Str(<<"inf">>), Garbage, Absent}
      [] key \in Longitudes ->
             {NumText(200, 1), NumText(0, 1), Str(<<"nan">>), Str(<<"-inf">>), Empty, Absent}
      [] key = "distance_km" ->
             {NumText(250, 1), NumText(-1, 1), NumText(0, 1), Str(<<"nan">>), Garbage, Absent}
      [] key = "duration_min" ->
             {NumText(0, 1), NumText(2000, 1), Str(<<"nan">>), Empty, None, Absent}
      [] key = "trip_duration" ->
             {NumText(0, 1), NumText(90000, 1), NumText(12000, 1), NumText(10800, 1),
              NumText(600, 1), NumText(100, 1), Str(<<"nan">>), Garbage, Absent}
      [] key = "fare_amount" ->
             {NumText(-5, 1), NumText(0, 1), Str(<<"inf">>), Garbage, Absent}
      [] key = "tip_amount" ->
             {NumText(-1, 1), Str(<<"nan">>), None, Absent}
      [] key = "vendor_id" ->
             {Str(<<"1">>), Str(<<" ", "2">>), Empty, None, Absent}
      [] key = "payment_type" ->
             {Str(<<"2">>), Empty, Absent}

\* the row of the acceptance scenario: eight fields and no others
ScenarioFields ==
    [pickup_lat |-> NumText(4075, 100), pickup_lng |-> NumText(-7399, 100),
     dropoff_lat |-> NumText(4076, 100), dropoff_lng |-> NumText(-7397, 100),
     fare_amount |-> NumText(1250, 100), tip_amount |-> NumText(200, 100)]

\* a row in the header of etl.py's input, distance and duration given
DirectFields ==
    [pickup_lat |-> NumText(4075, 100), pickup_lng |-> NumText(-7399, 100),
     dropoff_lat |-> NumText(4076, 100), dropoff_lng |-> NumText(-7397, 100),
     distance_km |-> NumText(202, 100), duration_min |-> NumText(15, 1),
     fare_amount |-> NumText(1250, 100), tip_amount |-> NumText(200, 100),
     vendor_id |-> Str(<<"2">>), payment_type |-> Str(<<"1">>)]

\* a row in the header of etl_fixed.py's input, coordinates and seconds given
CoordFields ==
    [pickup_latitude |-> NumText(4075, 100), pickup_longitude |-> NumText(-7399, 100),
     dropoff_latitude |-> NumText(4076, 100), dropoff_longitude |-> NumText(-7397, 100),
     trip_duration |-> NumText(900, 1), vendor_id |-> Str(<<"2">>)]

\* a row of etl_fixed.py's input whose dropoff is where its pickup was
StandstillFields ==
    [pickup_latitude |-> NumText(4075, 100), pickup_longitude |-> NumText(-7399, 100),
     dropoff_latitude |-> NumText(4075, 100), dropoff_longitude |-> NumText(-7399, 100),
     trip_duration |-> NumText(900, 1), vendor_id |-> Str(<<"2">>)]

BaseFields == {ScenarioFields, DirectFields, CoordFields, StandstillFields}

\* the dict with these timestamps and fields, odd[k] in place of base[k]
MakeRow(ts, base, odd) ==
    LET val(k) ==
            CASE k = "pickup_datetime" -> ts[1]
              [] k = "dropoff_datetime" -> ts[2]
              [] k \in DOMAIN odd -> odd[k]
              [] k \in DOMAIN base -> base[k]
              [] OTHER -> Absent
        keys == {k \in Fields \cup {"pickup_datetime", "dropoff_datetime"} : val(k) # Absent}
    IN  [k \in keys |-> val(k)]

OddChoices ==
    UNION { [ks -> UNION {Odd(k) : k \in ks}] : ks \in {x \in SUBSET Fields : Cardinality(x) <= MaxOddFields} }

Rows ==
    { MakeRow(ts, base, odd) :
          ts \in TimestampPairs, base \in BaseFields,
          odd \in {o \in OddChoices : \A k \in DOMAIN o : o[k] \in Odd(k)} }

ScenarioRow == MakeRow(<<TsText(FmtYmd, 480), TsText(FmtYmd, 495)>>, ScenarioFields, <<>>)

ValidateInit ==
    /\ LoaderIdle
    /\ MainIdle
    /\ row \in Rows
    /\ variant = "none"
    /\ vpc = "ready"
    /\ out = None
    /\ first = None

\* etl.py's validate_and_transform_row is called on the row
CallEtl ==
    /\ vpc = "ready"
    /\ variant' = "etl"
    /\ out' = validate_etl(row)
    /\ vpc' = "done"
    /\ UNCHANGED <<row, first, loaderVars, mainVars>>

\* etl_fixed.py's validate_and_transform_row is called on the row
CallEtlFixed ==
    /\ vpc = "ready"
    /\ variant' = "etl_fixed"
    /\ out' = validate_fixed(row)
    /\ vpc' = "done"
    /\ UNCHANGED <<row, first, loaderVars, mainVars>>

\* fieldnames of write_cleaned_csv, the header of the cleaned CSV
fieldnames ==
    <<"vendor_id", "pickup_datetime", "dropoff_datetime", "pickup_lat", "pickup_lng",
      "dropoff_lat", "dropoff_lng", "distance_km", "duration_min", "fare_amount",
      "tip_amount", "payment_type">>

\* the text csv.writer puts in a cell: '' for None, str(x) for a float, a str as it is
CellText(x) ==
    CASE x.t = "None" -> Empty
      [] x.t = "str" -> x
      [] x.t = "float" /\ x.c = "nan" -> Str(<<"nan">>)
      [] x.t = "float" /\ x.c = "inf" -> Str(<<IF x.n > 0 THEN "inf" ELSE "-inf">>)
      [] x.t = "float" /\ x.c = "fin" -> NumText(x.n, x.d)

\* writer.writerow(r) of write_cleaned_csv, then the line as csv.DictReader gives it back
ReadBack(r) == [k \in Range(fieldnames) |-> CellText(r[k])]

\* the emitted record is written by write_cleaned_csv, and the cleaned CSV is put
\* through the same validator again
Reread ==
    /\ vpc = "done"
    /\ out.kind = "returned"
    /\ out.rec # EmptyDict
    /\ first' = out.rec
    /\ row' = ReadBack(out.rec)
    /\ out' = (IF variant = "etl" THEN validate_etl(ReadBack(out.rec))
               ELSE validate_fixed(ReadBack(out.rec)))
    /\ vpc' = "reread"
    /\ UNCHANGED <<variant, loaderVars, mainVars>>

NextValidate == CallEtl \/ CallEtlFixed \/ Reread

SpecValidate == ValidateInit /\ [][NextValidate]_vars

-----------------------------------------------------------------------------
(* Properties of validate_and_transform_row *)

Called == vpc = "done"
Pickup == parse_dt(Get(row, "pickup_datetime", Empty))
Dropoff == parse_dt(Get(row, "dropoff_datetime", Empty))

\* C3: every call returns either a populated record with no reasons, or an
\* empty record with at least one reason; never both populated, never both empty.
C3_RecordIffNoReasons ==
    Called =>
        /\ out.kind = "returned"
        /\ \/ out.rec # EmptyDict /\ out.reasons = <<>>
           \/ out.rec = EmptyDict /\ out.reasons # <<>>

\* what does hold: a call that returns, returns exactly one of the two
C3_RecordIffNoReasonsWhenReturned ==
    (Called /\ out.kind = "returned") =>
        \/ out.rec # EmptyDict /\ out.reasons = <<>>
        \/ out.rec = EmptyDict /\ out.reasons # <<>>

\* a call on a row with one timestamp carrying a UTC offset and the other not
C3_MixedOffsets ==
    /\ Called
    /\ Pickup.ok /\ Dropoff.ok
    /\ Pickup.aware # Dropoff.aware
    /\ out = Raised("TypeError")

\* C9: the scenario row (the eight fields and no others) is accepted: no
\* reasons, and a normalized record whose duration_min is 15.0.
C9_ScenarioRowAccepted ==
    (Called /\ row = ScenarioRow) =>
        /\ out.kind = "returned"
        /\ out.reasons = <<>>
        /\ out.rec # EmptyDict
        /\ out.rec.duration_min = Flt(15, 1)

\* what the two validators return for the scenario row
C9_ScenarioRowRejected ==
    (Called /\ row = ScenarioRow) =>
        /\ variant = "etl" =>
               out = Returned(EmptyDict, <<Reason("invalid_", "distance_km"),
                                           Reason("invalid_", "duration_min")>>)
        /\ variant = "etl_fixed" =>
               out = Returned(EmptyDict, <<Reason("invalid_", "pickup_lat"),
                                           Reason("invalid_", "pickup_lng"),
                                           Reason("invalid_", "dropoff_lat"),
                                           Reason("invalid_", "dropoff_lng"),
                                           Reason("invalid_", "trip_duration")>>)

-----------------------------------------------------------------------------
(* Field constraints of an emitted record *)

Emitted == Called /\ out.kind = "returned" /\ out.rec # EmptyDict

\* lo <= x <= hi on floats (false for nan)
Between(x, lo, hi) == (Less(lo, x) \/ lo = x) /\ (Less(x, hi) \/ x = hi)
\* x >= lo on floats (false for nan)
AtLeast(x, lo) == Less(lo, x) \/ lo = x

FieldConstraints(rec) ==
    /\ rec.dropoff_datetime.s[2] > rec.pickup_datetime.s[2]
    /\ Between(rec.pickup_lat, Flt(-90, 1), Flt(90, 1))
    /\ Between(rec.dropoff_lat, Flt(-90, 1), Flt(90, 1))
    /\ Between(rec.pickup_lng, Flt(-180, 1), Flt(180, 1))
    /\ Between(rec.dropoff_lng, Flt(-180, 1), Flt(180, 1))
    /\ Between(rec.distance_km, Flt(0, 1), Flt(200, 1))
    /\ Less(Flt(0, 1), rec.duration_min) /\ Between(rec.duration_min, Flt(0, 1), Flt(1440, 1))
    /\ AtLeast(rec.fare_amount, Flt(0, 1))
    /\ AtLeast(rec.tip_amount, Flt(0, 1))

\* the float fields of a record
FloatFields ==
    {"pickup_lat", "pickup_lng", "dropoff_lat", "dropoff_lng", "distance_km",
     "duration_min", "fare_amount", "tip_amount"}

\* C11: every emitted record satisfies all the declared field constraints at
\* once: dropoff after pickup, latitudes in [-90, 90], longitudes in
\* [-180, 180], distance_km in [0, 200], duration_min in (0, 1440],
\* fare_amount >= 0 and tip_amount >= 0.
C11_EmittedSatisfiesConstraints == Emitted => FieldConstraints(out.rec)

\* what does hold: an emitted record without a nan field satisfies them
C11_ConstraintsWhenNoNaN ==
    (Emitted /\ \A f \in FloatFields : out.rec[f] # NaN) => FieldConstraints(out.rec)

\* a record emitted with nan in it
C11_NaNEmitted == Emitted /\ \E f \in FloatFields : out.rec[f] = NaN

-----------------------------------------------------------------------------
(* main(): rows are validated one by one, the accepted records written and  *)
(* then loaded. etl_fixed.py's main calls the loader above with its default *)
(* batch size; etl.py's main calls etl.py's own load_into_mysql.            *)

\* longest input handed to main
MaxRaw == 2
\* largest --max-rows
MaxCap == 2

\* load_into_mysql(kept_rows, conn, batch_size=1000)
DefaultBatchSize == 1000

GoodTimes == <<TsText(FmtYmd, 480), TsText(FmtYmd, 495)>>

\* a row etl.py accepts, a row etl_fixed.py accepts, a row with dropoff = pickup,
\* and a row whose pickup carries a UTC offset while its dropoff carries none
RawPool ==
    { MakeRow(GoodTimes, DirectFields, <<>>),
      MakeRow(GoodTimes, CoordFields, <<>>),
      MakeRow(<<TsText(FmtYmd, 480), TsText(FmtYmd, 480)>>, DirectFields, <<>>),
      MakeRow(<<TsText("iso+tz", 480), TsText(FmtYmd, 495)>>, CoordFields, <<>>) }

validate_and_transform_row(v, r) == IF v = "etl" THEN validate_etl(r) ELSE validate_fixed(r)

\* args.max_rows and i >= args.max_rows
CapReached(m, i) == m # None /\ m.v # 0 /\ i >= m.v

MainInit ==
    /\ LoaderIdle
    /\ variant \in {"etl", "etl_fixed"}
    /\ row = <<>>
    /\ vpc = "idle"
    /\ out = None
    /\ first = None
    /\ raw_iter \in SeqsUpTo(RawPool, MaxRaw)
    /\ max_rows \in (IF variant = "etl" THEN {None} ELSE {None} \cup {PyInt(n) : n \in 0 .. MaxCap})
    /\ load_db \in BOOLEAN
    /\ i_row = 0
    /\ excluded = 0
    /\ kept = 0
    /\ written = None
    /\ loaded = None
    /\ mpc = "loop"
    /\ examined = 0

\* for i, row in enumerate(raw_iter): the cap is reached, break
MainBreak ==
    /\ mpc = "loop"
    /\ i_row < Len(raw_iter)
    /\ CapReached(max_rows, i_row)
    /\ row' = raw_iter[i_row + 1]
    /\ i_row' = i_row + 1
    /\ mpc' = "write"
    /\ UNCHANGED <<variant, vpc, out, first, raw_iter, max_rows, load_db, excluded, kept,
                   written, loaded, examined, loaderVars>>

\* the loop body for a row the validator returns reasons for
MainExclude ==
    /\ mpc = "loop"
    /\ i_row < Len(raw_iter)
    /\ ~CapReached(max_rows, i_row)
    /\ LET res == validate_and_transform_row(variant, raw_iter[i_row + 1])
       IN  /\ res.kind = "returned"
           /\ res.reasons # <<>>
           /\ out' = res
    /\ row' = raw_iter[i_row + 1]
    /\ i_row' = i_row + 1
    /\ examined' = examined + 1
    /\ excluded' = excluded + 1
    /\ UNCHANGED <<variant, vpc, first, raw_iter, max_rows, load_db, kept, written, loaded,
                   mpc, loaderVars>>

\* the loop body for a row the validator returns no reasons for
MainKeep ==
    /\ mpc = "loop"
    /\ i_row < Len(raw_iter)
    /\ ~CapReached(max_rows, i_row)
    /\ LET res == validate_and_transform_row(variant, raw_iter[i_row + 1])
       IN  /\ res.kind = "returned"
           /\ res.reasons = <<>>
           /\ out' = res
           /\ kept_rows' = Append(kept_rows, res.rec)
    /\ row' = raw_iter[i_row + 1]
    /\ i_row' = i_row + 1
    /\ examined' = examined + 1
    /\ kept' = kept + 1
    /\ UNCHANGED <<variant, vpc, first, raw_iter, max_rows, load_db, excluded, written, loaded,
                   mpc, batch_size, pc, pos, batch, existing, values, idx, total, ret, flog,
                   vendors, payment_types, trips, tx, hist>>

\* the loop body for a row the validator raises on: the exception leaves main
MainRowRaises ==
    /\ mpc = "loop"
    /\ i_row < Len(raw_iter)
    /\ ~CapReached(max_rows, i_row)
    /\ LET res == validate_and_transform_row(variant, raw_iter[i_row + 1])
       IN  /\ res.kind = "raised"
           /\ out' = res
    /\ row' = raw_iter[i_row + 1]
    /\ i_row' = i_row + 1
    /\ examined' = examined + 1
    /\ mpc' = "crashed"
    /\ UNCHANGED <<variant, vpc, first, raw_iter, max_rows, load_db, excluded, kept, written,
                   loaded, loaderVars>>

\* raw_iter is exhausted
MainExhausted ==
    /\ mpc = "loop"
    /\ i_row = Len(raw_iter)
    /\ mpc' = "write"
    /\ UNCHANGED <<validateVars, raw_iter, max_rows, load_db, i_row, excluded, kept, written,
                   loaded, examined, loaderVars>>

\* written = write_cleaned_csv(kept_rows, args.output)
MainWrite ==
    /\ mpc = "write"
    /\ written' = Len(kept_rows)
    /\ mpc' = "decide"
    /\ UNCHANGED <<validateVars, raw_iter, max_rows, load_db, i_row, excluded, kept, loaded,
                   examined, loaderVars>>

\* if args.load_db and written > 0: not taken
MainSkipLoad ==
    /\ mpc = "decide"
    /\ ~(load_db /\ written > 0)
    /\ mpc' = "end"
    /\ UNCHANGED <<validateVars, raw_iter, max_rows, load_db, i_row, excluded, kept, written,
                   loaded, examined, loaderVars>>

\* etl_fixed.py: load_into_mysql(kept_rows, conn) is called
MainCallLoad ==
    /\ mpc = "decide"
    /\ load_db /\ written > 0
    /\ variant = "etl_fixed"
    /\ batch_size' = DefaultBatchSize
    /\ pc' = "start"
    /\ hist' = HistInit(kept_rows, flog, trips)
    /\ mpc' = "loading"
    /\ UNCHANGED <<validateVars, raw_iter, max_rows, load_db, i_row, excluded, kept, written,
                   loaded, examined, kept_rows, pos, batch, existing, values, idx, total, ret,
                   flog, vendors, payment_types, trips, tx>>

\* etl_fixed.py: loaded = load_into_mysql(...) has returned
MainLoaded ==
    /\ mpc = "loading"
    /\ pc = "done"
    /\ loaded' = ret.v
    /\ mpc' = "end"
    /\ UNCHANGED <<validateVars, raw_iter, max_rows, load_db, i_row, excluded, kept, written,
                   examined, loaderVars>>

\* etl.py's load_into_mysql: the tuple of one record
EtlRowValues(r) ==
    << r.vendor_id, r.pickup_datetime, r.dropoff_datetime, r.pickup_lat, r.pickup_lng,
       r.dropoff_lat, r.dropoff_lng, r.distance_km, r.duration_min, r.fare_amount,
       r.tip_amount, r.payment_type >>

\* etl.py: load_into_mysql(kept_rows, conn) with fewer than 2000 records: one
\* executemany, commit, total += len(batch)
MainEtlLoad ==
    /\ mpc = "decide"
    /\ load_db /\ written > 0
    /\ variant = "etl"
    /\ trips' = trips \o [j \in DOMAIN kept_rows |-> EtlRowValues(kept_rows[j])]
    /\ loaded' = Len(kept_rows)
    /\ mpc' = "end"
    /\ UNCHANGED <<validateVars, raw_iter, max_rows, load_db, i_row, excluded, kept, written,
                   examined, kept_rows, batch_size, pc, pos, batch, existing, values, idx,
                   total, ret, flog, vendors, payment_types, tx, hist>>

\* etl.py: the store refuses the executemany or the commit; nothing catches it
MainEtlLoadRaises ==
    /\ mpc = "decide"
    /\ load_db /\ written > 0
    /\ variant = "etl"
    /\ \E e \in IntegrityErrors \cup OtherErrors : out' = Raised(e)
    /\ mpc' = "crashed"
    /\ UNCHANGED <<variant, row, vpc, first, raw_iter, max_rows, load_db, i_row, excluded, kept,
                   written, loaded, examined, loaderVars>>

NextMain ==
    \/ MainBreak
    \/ MainExclude
    \/ MainKeep
    \/ MainRowRaises
    \/ MainExhausted
    \/ MainWrite
    \/ MainSkipLoad
    \/ MainCallLoad
    \/ MainLoaded
    \/ MainEtlLoad
    \/ MainEtlLoadRaises
    \/ LoadStart
    \/ NextChunk
    \/ LoadReturn
    \/ SelectVendors
    \/ InsertVendors
    \/ SelectPayments
    \/ InsertPayments
    \/ CommitParents
    \/ ParentsException
    \/ PrepareValues
    \/ BulkExecute
    \/ BulkCommit
    \/ BulkIntegrityError
    \/ BulkException
    \/ RowExecute
    \/ RowCommit
    \/ RowIntegrityError
    \/ RowException

SpecMain == MainInit /\ [][NextMain]_vars

-----------------------------------------------------------------------------
(* Properties of main *)

\* the records of the rows among rows[1..n] that the validator accepts, in order
RECURSIVE AcceptedOf(_, _, _)
AcceptedOf(v, rows, n) ==
    IF n = 0 THEN <<>>
    ELSE LET res == validate_and_transform_row(v, rows[n])
         IN  IF res.kind = "returned" /\ res.reasons = <<>>
             THEN Append(AcceptedOf(v, rows, n - 1), res.rec)
             ELSE AcceptedOf(v, rows, n - 1)

\* load_into_mysql was called and has returned (loaded is bound)
HasLoaded == mpc = "end" /\ load_db /\ written > 0

\* the validator raised on the last row examined, which ended main
ValidatorRaised == mpc = "crashed" /\ out = Raised("TypeError")

\* C12: every row examined is classified exactly once: accepted + rejected
\* equals the rows examined so far, the buffer holds exactly the accepted rows,
\* and the persisted count reported never exceeds the accepted count.
C12_EveryRowClassified ==
    /\ kept + excluded = examined
    /\ Len(kept_rows) = kept
    /\ kept_rows = AcceptedOf(variant, raw_iter, examined)
    /\ HasLoaded => loaded <= kept

\* what does hold: the rows on which the validator returned are classified once
C12_ReturnedRowsClassified ==
    /\ kept + excluded = (IF ValidatorRaised THEN examined - 1 ELSE examined)
    /\ Len(kept_rows) = kept
    /\ kept_rows = AcceptedOf(variant, raw_iter, examined)
    /\ HasLoaded => loaded <= kept

\* what does hold: the three counters never decrease
C12_CountersNeverDecrease ==
    [][/\ kept' >= kept
       /\ excluded' >= excluded
       /\ total' >= total
       /\ (HasLoaded => loaded' = loaded)]_vars

\* a row examined and neither accepted nor rejected
C12_RowUnclassified == ValidatorRaised /\ kept + excluded < examined

-----------------------------------------------------------------------------
(* Round trip through the cleaned CSV *)

\* a == b on Python values: nan is not equal to nan
PyEq(a, b) == a = b /\ a # NaN

\* the same record in every field
SameRecord(a, b) == \A k \in Range(fieldnames) : PyEq(a[k], b[k])

ReadBackDone == vpc = "reread"

\* C13: an accepted row's record, written by write_cleaned_csv and read back,
\* is accepted by the same validator with a record equal to the first in
\* every field.
C13_RoundTrip ==
    ReadBackDone =>
        /\ out.kind = "returned"
        /\ out.reasons = <<>>
        /\ out.rec # EmptyDict
        /\ SameRecord(out.rec, first)

\* what does hold: through etl.py the record comes back accepted, and equal in
\* every field that is not nan
C13_RoundTripEtl ==
    (ReadBackDone /\ variant = "etl") =>
        /\ out.kind = "returned"
        /\ out.reasons = <<>>
        /\ out.rec # EmptyDict
        /\ \A k \in Range(fieldnames) : first[k] # NaN => PyEq(out.rec[k], first[k])

\* what does hold: etl_fixed.py rejects every record it has emitted itself
C13_RoundTripFixedRejects ==
    (ReadBackDone /\ variant = "etl_fixed") =>
        out = Returned(EmptyDict, <<Reason("invalid_", "pickup_lat"),
                                    Reason("invalid_", "pickup_lng"),
                                    Reason("invalid_", "dropoff_lat"),
                                    Reason("invalid_", "dropoff_lng"),
                                    Reason("invalid_", "trip_duration")>>)

-----------------------------------------------------------------------------
(* The failure log *)

\* the entries appended by this call of load_into_mysql
RunLog == SubSeq(flog, Len(hist.startLog) + 1, Len(flog))

\* the failure entries among them
FailureEntries == {RunLog[j] : j \in 2 .. Len(RunLog)}

\* an entry has the error text, as the message or inside the traceback
HasErrorText(e) == "err" \in DOMAIN e \/ "tb" \in DOMAIN e
\* an entry has the field values of the rows it is about
HasRowValues(e) == "data" \in DOMAIN e

LogKeptAndDelimited ==
    /\ SubSeq(flog, 1, Len(hist.startLog)) = hist.startLog
    /\ pc = "start" => RunLog = <<>>
    /\ pc # "start" => RunLog # <<>> /\ RunLog[1] = RunDelimiter
    /\ RunDelimiter \notin FailureEntries

\* C14: the log is append-only and structured per run: the call first appends
\* one run delimiter and only then failure entries, earlier content is kept,
\* and every failure entry has the failure class, the error text and the field
\* values of the rows concerned.
C14_LogStructured ==
    /\ LogKeptAndDelimited
    /\ \A e \in FailureEntries :
           "cls" \in DOMAIN e /\ HasErrorText(e) /\ HasRowValues(e)

\* what does hold: delimiter first, earlier content kept, every failure entry
\* has its class and the error text, and the row-level entries have the row's values
C14_RowEntriesStructured ==
    /\ LogKeptAndDelimited
    /\ \A e \in FailureEntries :
           /\ "cls" \in DOMAIN e /\ HasErrorText(e)
           /\ e.cls \in {"Failed row index in batch", "Other insert exception on single row:"}
                  <=> HasRowValues(e)

\* what does hold: a step leaves the log as it is or appends one entry
C14_AppendOnly == [][flog' = flog \/ \E e \in {flog'[Len(flog')]} : flog' = Append(flog, e)]_vars

\* a batch-level entry in the log: the bulk insert of a chunk of two failed
C14_BatchEntryLogged ==
    \E e \in FailureEntries : e.cls = "Unexpected exception during batch insert:" /\ Len(batch) = 2

-----------------------------------------------------------------------------
(* One level of retry *)

\* the record's chunk is over
ChunkOver(r) ==
    /\ hist.chunkOf[r] # 0
    /\ hist.chunkOf[r] < hist.chunkNo \/ pc \in {"next", "done"}

\* the log has the batch-level integrity entry of the record's chunk
BulkFailedOnIntegrity(r) ==
    \E n \in DOMAIN flog :
        /\ n > Len(hist.startLog)
        /\ flog[n].cls = "Batch IntegrityError:"
        /\ hist.entryChunk[n] = hist.chunkOf[r]

\* RowFailed stands for both row-level failures, the integrity error and any other
RowOutcomes == {"RowCommitted", "RowFailed", "RowError"}

SubmittedAtMostOnceEach ==
    \A r \in DOMAIN kept_rows :
        /\ hist.bulkSub[r] <= 1
        /\ hist.rowSub[r] <= 1
        /\ hist.rowSub[r] = 1 => (hist.bulkSub[r] = 1 /\ BulkFailedOnIntegrity(r))

Terminated == pc \in {"done", "raised"}

\* steps the call can still take at most before the current chunk is over
StepsLeft ==
    CASE pc \in {"done", "raised", "idle"} -> 0
      [] pc = "next" -> 1
      [] pc = "row_commit" -> 2 * (Len(values) - idx)
      [] pc = "row_exec" -> 2 * (Len(values) - idx) + 1
      [] pc = "bulk_commit" -> 2 * Len(batch) + 2
      [] pc = "bulk_exec" -> 2 * Len(batch) + 3
      [] pc = "values" -> 2 * Len(batch) + 4
      [] pc = "p_commit" -> 2 * Len(batch) + 5
      [] pc = "p_insert" -> 2 * Len(batch) + 6
      [] pc = "p_select" -> 2 * Len(batch) + 7
      [] pc = "v_insert" -> 2 * Len(batch) + 8
      [] pc = "v_select" -> 2 * Len(batch) + 9
      [] pc = "start" -> 2 * Len(kept_rows) + 11

\* a bound on the steps the call can still take: records not yet consumed, then StepsLeft
Measure == (Len(kept_rows) - pos) * (2 * Len(kept_rows) + 12) + StepsLeft

\* C15 as claimed: at most one bulk and one individual submission per record,
\* the individual one only after the integrity failure of its chunk's bulk
\* insert, and every chunk ends in Committed or in per-row outcomes.
C15_EndsCommittedOrPerRow ==
    /\ SubmittedAtMostOnceEach
    /\ \A r \in DOMAIN kept_rows : ChunkOver(r) => hist.fate[r] \in {"Committed"} \cup RowOutcomes

\* C15 amended: at most one bulk and one individual submission per record, the
\* individual one only after the integrity failure of its chunk's bulk insert;
\* every chunk ends in Committed (all its records), in Abandoned (all its
\* records, the bulk insert having failed with another error) or in per-row
\* outcomes for all its records; and the load terminates: short of the end a
\* step can always be taken, and every step lowers a natural number.
C15_OneLevelOfRetry ==
    /\ [](/\ SubmittedAtMostOnceEach
          /\ \A r \in DOMAIN kept_rows :
                ChunkOver(r) =>
                    /\ hist.fate[r] \in {"Committed", "Abandoned"} \cup RowOutcomes
                    /\ \A q \in DOMAIN kept_rows :
                          hist.chunkOf[q] = hist.chunkOf[r] =>
                              /\ hist.fate[q] = "Committed" <=> hist.fate[r] = "Committed"
                              /\ hist.fate[q] = "Abandoned" <=> hist.fate[r] = "Abandoned")
    /\ [](~Terminated => ENABLED Next)
    /\ [][Measure' < Measure /\ Measure' >= 0]_vars

\* a finished load with an abandoned chunk and a chunk that was degraded
C15_Witness ==
    /\ pc = "done"
    /\ \E r, q \in DOMAIN kept_rows :
          /\ hist.fate[r] = "Abandoned" /\ hist.bulkSub[r] = 1 /\ hist.rowSub[r] = 0
          /\ hist.fate[q] = "RowFailed" /\ hist.bulkSub[q] = 1 /\ hist.rowSub[q] = 1


-----------------------------------------------------------------------------
(* Independent transactions *)

\* a failure handler ran in this step: it wrote a failure entry and called conn.rollback()
RolledBack == pc # "start" /\ Len(flog') = Len(flog) + 1

\* the committed trips are, chunk by chunk, the whole chunk or the rows of the
\* chunk that were committed one by one, each once
WholeChunksOrRows ==
    /\ \A j, k \in DOMAIN trips : trips[j].src = trips[k].src => j = k
    /\ \A r \in DOMAIN kept_rows :
          /\ r \in Persisted <=> hist.fate[r] \in {"Committed", "RowCommitted"}
          /\ hist.fate[r] = "Committed" =>
                \A q \in DOMAIN kept_rows :
                    hist.chunkOf[q] = hist.chunkOf[r] => q \in Persisted

\* C16: a commit adds the whole current chunk or one row of it to trips and
\* never takes a committed row away; a rollback (after a failed chunk, a failed
\* row or a failed parent resolution) leaves trips, vendors and payment_types
\* as they were; the lookup tables only grow; and in every state the committed
\* trips are whole chunks or single rows committed on their own.
C16_IndependentTransactions ==
    /\ []WholeChunksOrRows
    /\ [][/\ Len(trips') >= Len(trips)
          /\ SubSeq(trips', 1, Len(trips)) = trips
          /\ vendors \sqsubseteq vendors'
          /\ payment_types \sqsubseteq payment_types'
          /\ RolledBack => tx' = NoTx /\ UNCHANGED <<trips, vendors, payment_types>>
          /\ trips' # trips =>
                \/ /\ pc = "bulk_commit"
                   /\ SubSeq(trips', Len(trips) + 1, Len(trips')) = Submitted(1, Len(batch))
                \/ /\ pc = "row_commit"
                   /\ SubSeq(trips', Len(trips) + 1, Len(trips')) = Submitted(idx + 1, idx + 1)]_vars

\* a load is over in which a row failed on its own after an earlier row of the
\* same chunk was committed, and the earlier row and a vendor row this run created
\* are in the store
C16_Witness ==
    /\ pc = "done"
    /\ \E r, q \in DOMAIN kept_rows :
          /\ r < q
          /\ hist.chunkOf[r] = hist.chunkOf[q]
          /\ hist.fate[r] = "RowCommitted"
          /\ hist.fate[q] \in {"RowFailed", "RowError"}
          /\ r \in Persisted
    /\ \E v \in BagToSet(vendors) : v[2] = "unknown"


-----------------------------------------------------------------------------
(* The resolver beside another writer of the lookup tables *)

\* the label another writer gives the rows it creates
OtherLabel == "set by another writer"

\* another connection inserts and commits a key of the batch that the resolver's
\* SELECT did not find, before the resolver's INSERT IGNORE for that table runs
OtherWriter ==
    /\ pc \in {"v_insert", "p_insert"}
    /\ LET keys == IF pc = "v_insert" THEN vendor_ids(batch) ELSE payment_codes(batch)
           table == IF pc = "v_insert" THEN vendors ELSE payment_types
           pending == IF pc = "v_insert" THEN tx.vendors ELSE tx.payment_types
       IN  \E k \in to_insert(keys, existing) :
              /\ k \notin KeysOf(table (+) pending)
              /\ IF pc = "v_insert"
                 THEN /\ vendors' = vendors (+) SetToBag({<<k, OtherLabel>>})
                      /\ UNCHANGED payment_types
                 ELSE /\ payment_types' = payment_types (+) SetToBag({<<k, OtherLabel>>})
                      /\ UNCHANGED vendors
    /\ UNCHANGED <<kept_rows, batch_size, pc, pos, batch, existing, values, idx, total, ret,
                   flog, trips, tx, hist>>
    /\ UNCHANGED <<validateVars, mainVars>>

NextConcurrent == Next \/ OtherWriter

\* loads of at most two chunks in which every record names a vendor, so that both
\* lookup tables are written for every chunk
ConcurrentInit ==
    /\ Init
    /\ batch_size < 1 \/ Len(kept_rows) <= 2 * batch_size
    /\ \A r \in Range(kept_rows) : Truthy(r.vendor_id)

SpecConcurrent == ConcurrentInit /\ [][NextConcurrent]_vars

\* the rows of a table, committed or pending, that carry key k
RowsOf(table, pending, k) == {r \in BagToSet(table (+) pending) : r[1] = k}

\* the resolver's INSERT statement of this step carries a key that is in the table
InsertsExistingKey ==
    \/ /\ pc = "v_insert" /\ pc' = "p_select"
       /\ to_insert(vendor_ids(batch), existing) \cap KeysOf(vendors) # {}
    \/ /\ pc = "p_insert" /\ pc' = "p_commit"
       /\ to_insert(payment_codes(batch), existing) \cap KeysOf(payment_types) # {}

\* C17: no key is ever in a lookup table twice; a key that is in a lookup table
\* keeps its one row, label included, through every step; and when the
\* resolver's INSERT carries a key that another writer created after the
\* resolver's SELECT, the INSERT goes through (the resolver moves on to its
\* next statement) and adds no row for that key.
C17_InsertIsNoOpForExistingKey ==
    /\ [](\A k \in KeysOf(vendors (+) tx.vendors) :
              KeyCopies(vendors (+) tx.vendors, k) = 1)
    /\ [](\A k \in KeysOf(payment_types (+) tx.payment_types) :
              KeyCopies(payment_types (+) tx.payment_types, k) = 1)
    /\ [](pc = "v_insert" => ENABLED InsertVendors)
    /\ [](pc = "p_insert" => ENABLED InsertPayments)
    /\ [][/\ \A k \in KeysOf(vendors) :
                RowsOf(vendors', tx'.vendors, k) = RowsOf(vendors, EmptyBag, k)
          /\ \A k \in KeysOf(payment_types) :
                RowsOf(payment_types', tx'.payment_types, k) = RowsOf(payment_types, EmptyBag, k)
          /\ InsertsExistingKey =>
                /\ \A k \in to_insert(vendor_ids(batch), existing) \cap KeysOf(vendors) :
                      pc = "v_insert" => RowsOf(EmptyBag, tx'.vendors, k) = {}
                /\ \A k \in to_insert(payment_codes(batch), existing) \cap KeysOf(payment_types) :
                      pc = "p_insert" => RowsOf(EmptyBag, tx'.payment_types, k) = {}
                /\ UNCHANGED <<trips, vendors, payment_types>>]_vars

\* the resolver's INSERT has carried a vendor key that another writer had created
\* in the meantime, and the resolver's transaction was committed
C17_Witness ==
    /\ pc = "values"
    /\ hist.life = <<"Pending", "ParentsResolved">>
    /\ \E k \in vendor_ids(batch) :
          /\ <<"vendors", k>> \in hist.sent
          /\ <<k, OtherLabel>> \in BagToSet(vendors)


-----------------------------------------------------------------------------
(* The derivation step of etl_fixed.py after a numeric failure *)

CoordinatesReason == Reason("invalid_", "coordinates")

\* a reason that to_float appended is among the reasons
NumericFailure(reasons) ==
    \E k \in Range(reasons) :
        IsParseReason(k) /\ k \notin {CoordinatesReason, Reason("invalid_", "timestamp")}

FixedReturned == Called /\ variant = "etl_fixed" /\ out.kind = "returned"

\* C18: a row of etl_fixed.py for which numeric parsing collected an invalid_*
\* or out_of_range_* reason is rejected without the distance derivation having
\* run: invalid_coordinates is not among its reasons.
C18_NoDerivationAfterNumericFailure ==
    (FixedReturned /\ NumericFailure(out.reasons)) => CoordinatesReason \notin Range(out.reasons)

\* what does hold: such a row is rejected with an empty record and without any
\* reason of the plausibility gates, and invalid_coordinates is only ever added
\* to a row that numeric parsing had already failed
C18_RejectedBeforePlausibility ==
    /\ (FixedReturned /\ NumericFailure(out.reasons)) =>
          /\ out.rec = EmptyDict
          /\ \A k \in Range(out.reasons) : IsParseReason(k)
    /\ (FixedReturned /\ CoordinatesReason \in Range(out.reasons)) => NumericFailure(out.reasons)

\* pickup_latitude 'inf': out_of_range_pickup_lat, then invalid_coordinates
C18_CoordinatesAfterFailure ==
    /\ FixedReturned
    /\ Get(row, "pickup_latitude", Empty) = Str(<<"inf">>)
    /\ out = Returned(EmptyDict, <<Reason("out_of_range_", "pickup_lat"), CoordinatesReason>>)


-----------------------------------------------------------------------------
(* The plausibility gates of etl_fixed.py *)

GateReasons ==
    {Reason("", "unrealistic_distance"), Reason("", "unrealistic_duration"),
     Reason("", "suspicious_trip")}

\* the call went past the timestamp gates and the numeric gates
PassedNumericGates == FixedReturned /\ Range(out.reasons) \subseteq GateReasons

\* the derived values of the row the validator was called on
DerivedDuration == Div60(float(Get(row, "trip_duration", Empty)).x)
DerivedDistance ==
    haversine_distance(float(Get(row, "pickup_latitude", Empty)).x,
                       float(Get(row, "pickup_longitude", Empty)).x,
                       float(Get(row, "dropoff_latitude", Empty)).x,
                       float(Get(row, "dropoff_longitude", Empty)).x).km

\* C19: for a row of etl_fixed.py that passed the timestamp and numeric gates,
\* unrealistic_distance is a reason iff the derived distance is above 100 km,
\* unrealistic_duration iff the derived duration is above 180 minutes,
\* suspicious_trip iff the distance is below 0.1 km and the duration above 10
\* minutes; each reason appears at most once; and the row is rejected iff one
\* of the three is present. A value equal to a threshold is not above or
\* below it.
C19_PlausibilityGates ==
    PassedNumericGates =>
        /\ Reason("", "unrealistic_distance") \in Range(out.reasons)
              <=> Greater(DerivedDistance, Flt(100, 1))
        /\ Reason("", "unrealistic_duration") \in Range(out.reasons)
              <=> Greater(DerivedDuration, Flt(180, 1))
        /\ Reason("", "suspicious_trip") \in Range(out.reasons)
              <=> (Less(DerivedDistance, Flt(1, 10)) /\ Greater(DerivedDuration, Flt(10, 1)))
        /\ Cardinality(Range(out.reasons)) = Len(out.reasons)
        /\ out.rec = EmptyDict <=> out.reasons # <<>>

\* a standstill of 200 minutes: two gates fire, each on its own
C19_Witness ==
    /\ PassedNumericGates
    /\ DerivedDistance = Flt(0, 1)
    /\ DerivedDuration = Flt(200, 1)
    /\ out = Returned(EmptyDict, <<Reason("", "unrealistic_duration"), Reason("", "suspicious_trip")>>)

\* a standstill of exactly 10 minutes is emitted
C19_StandstillAtThreshold ==
    /\ PassedNumericGates
    /\ DerivedDistance = Flt(0, 1)
    /\ DerivedDuration = Flt(10, 1)
    /\ out.rec # EmptyDict

\* a trip of exactly 180 minutes is emitted
C19_DurationAtThreshold ==
    /\ PassedNumericGates
    /\ DerivedDuration = Flt(180, 1)
    /\ out.rec # EmptyDict


-----------------------------------------------------------------------------
(* The numeric gates, field by field *)

\* <<column read, key of the reasons, min_v, max_v>> of every to_float call
NumericChecks(v) ==
    IF v = "etl"
    THEN { <<"pickup_lat", "pickup_lat", Flt(-90, 1), Flt(90, 1)>>,
           <<"pickup_lng", "pickup_lng", Flt(-180, 1), Flt(180, 1)>>,
           <<"dropoff_lat", "dropoff_lat", Flt(-90, 1), Flt(90, 1)>>,
           <<"dropoff_lng", "dropoff_lng", Flt(-180, 1), Flt(180, 1)>>,
           <<"distance_km", "distance_km", Flt(0, 1), Flt(200, 1)>>,
           <<"duration_min", "duration_min", Flt(1, 100), Flt(24 * 60, 1)>>,
           <<"fare_amount", "fare_amount", Flt(0, 1), None>>,
           <<"tip_amount", "tip_amount", Flt(0, 1), None>> }
    ELSE { <<"pickup_latitude", "pickup_lat", Flt(-90, 1), Flt(90, 1)>>,
           <<"pickup_longitude", "pickup_lng", Flt(-180, 1), Flt(180, 1)>>,
           <<"dropoff_latitude", "dropoff_lat", Flt(-90, 1), Flt(90, 1)>>,
           <<"dropoff_longitude", "dropoff_lng", Flt(-180, 1), Flt(180, 1)>>,
           <<"trip_duration", "trip_duration", Flt(1, 1), Flt(24 * 3600, 1)>> }

\* x is not in [lo, hi] ([lo, oo) when hi is None); nan is in no interval
OutsideBounds(x, lo, hi) == ~(AtLeast(x, lo) /\ (hi = None \/ AtLeast(hi, x)))

\* the call went past the timestamp gates
PassedTimestampGates ==
    /\ Called
    /\ out.kind = "returned"
    /\ Range(out.reasons) \cap {Reason("invalid_", "timestamp"),
                                Reason("", "non_positive_duration")} = {}

\* the field of check c gets invalid_ iff its text does not parse, out_of_range_
\* iff it parses to a value outside the bounds, and one reason at most
OneReasonPerField(c) ==
    LET f == float(Get(row, c[1], Empty))
        mine == {n \in DOMAIN out.reasons : out.reasons[n].key = c[2]}
    IN  /\ Cardinality(mine) <= 1
        /\ Reason("invalid_", c[2]) \in Range(out.reasons) <=> ~f.ok
        /\ Reason("out_of_range_", c[2]) \in Range(out.reasons)
              <=> (f.ok /\ OutsideBounds(f.x, c[3], c[4]))

\* C20: for a row that passed the timestamp gates every numeric field is
\* checked whatever the others gave, and contributes at most one reason:
\* invalid_<field> iff its value does not parse as a number, out_of_range_<field>
\* iff it parses and lies outside its bounds, never both; and a row with
\* pickup_lat=95 has out_of_range_pickup_lat among its reasons.
C20_EveryFieldChecked ==
    PassedTimestampGates =>
        /\ \A c \in NumericChecks(variant) : OneReasonPerField(c)
        /\ Get(row, "pickup_lat", Empty) = NumText(95, 1) =>
              Reason("out_of_range_", "pickup_lat") \in Range(out.reasons)

\* what does hold: the same for every field whose text is not 'nan', and for
\* pickup_lat=95 in the column the validator reads
C20_EveryFieldCheckedUnlessNaN ==
    PassedTimestampGates =>
        \A c \in NumericChecks(variant) :
            /\ Get(row, c[1], Empty) # Str(<<"nan">>) => OneReasonPerField(c)
            /\ (c[2] = "pickup_lat" /\ Get(row, c[1], Empty) = NumText(95, 1)) =>
                  Reason("out_of_range_", "pickup_lat") \in Range(out.reasons)

\* 'nan' in a numeric column: the field parses, is in no interval, and gets no reason
C20_NaNUnreported ==
    /\ PassedTimestampGates
    /\ \E c \in NumericChecks(variant) :
          /\ Get(row, c[1], Empty) = Str(<<"nan">>)
          /\ \A k \in Range(out.reasons) : k.key # c[2]

\* etl_fixed.py on a row whose column pickup_lat holds 95: the column is not read
C20_PickupLatNotRead ==
    /\ PassedTimestampGates
    /\ variant = "etl_fixed"
    /\ Get(row, "pickup_lat", Empty) = NumText(95, 1)
    /\ Reason("out_of_range_", "pickup_lat") \notin Range(out.reasons)
    /\ Reason("invalid_", "pickup_lat") \in Range(out.reasons)


-----------------------------------------------------------------------------
(* chunked(kept_rows, batch_size) *)

\* the chunks yielded so far, one after the other
RECURSIVE Concat(_)
Concat(ss) == IF ss = <<>> THEN <<>> ELSE Head(ss) \o Concat(Tail(ss))

\* the chunks are the input in its order, full but for the last, none empty
Partitioned ==
    /\ Concat(hist.chunks) = kept_rows
    /\ \A c \in DOMAIN hist.chunks :
          /\ Len(hist.chunks[c]) >= 1
          /\ Len(hist.chunks[c]) <= batch_size
          /\ c < Len(hist.chunks) => Len(hist.chunks[c]) = batch_size

\* C21: when load_into_mysql is over, the chunks it took from chunked,
\* concatenated in order, are exactly kept_rows; every chunk but the last has
\* batch_size records, the last between 1 and batch_size, and none is empty;
\* for every input length and every batch size.
C21_ChunkedPartitions == Terminated => Partitioned

\* what does hold: the same for batch sizes of at least one, and while the
\* load runs the chunks taken so far are the records consumed so far
C21_PartitionsWhenPositive ==
    /\ (Terminated /\ batch_size >= 1) => Partitioned
    /\ batch_size >= 1 => Concat(hist.chunks) = SubSeq(kept_rows, 1, pos)

\* batch_size 0: the load is over, no chunk was taken and records were passed
C21_NoChunkTaken ==
    /\ pc = "done"
    /\ batch_size = 0
    /\ kept_rows # <<>>
    /\ hist.chunks = <<>>


-----------------------------------------------------------------------------
(* The row cap of etl_fixed.py's main *)

Min(a, b) == IF a <= b THEN a ELSE b

\* main was given --max-rows and its loop over the rows has ended without an exception
CappedLoopOver == max_rows # None /\ mpc \in {"write", "decide", "loading", "end"}

\* at most m rows were validated, kept, written or loaded
WithinCap(m) ==
    /\ examined <= m
    /\ Len(kept_rows) <= m
    /\ mpc \in {"decide", "loading", "end"} => written <= m
    /\ HasLoaded => loaded <= m

\* C22: with --max-rows M, for every M >= 0, accepted + rejected after the loop
\* equals min(M, number of source rows), and no more than M rows are ever
\* validated, written or loaded.
C22_AtMostMaxRows ==
    /\ CappedLoopOver => kept + excluded = Min(max_rows.v, Len(raw_iter))
    /\ (max_rows # None /\ mpc # "idle") => WithinCap(max_rows.v)

\* what does hold: the same for every M >= 1
C22_AtMostMaxRowsWhenPositive ==
    /\ (CappedLoopOver /\ max_rows.v >= 1) => kept + excluded = Min(max_rows.v, Len(raw_iter))
    /\ (max_rows # None /\ mpc # "idle" /\ max_rows.v >= 1) => WithinCap(max_rows.v)

\* --max-rows 0: the run is over and rows were validated
C22_ZeroCapIgnored ==
    /\ mpc = "end"
    /\ max_rows = PyInt(0)
    /\ examined = Len(raw_iter)
    /\ kept > 0 /\ excluded > 0


-----------------------------------------------------------------------------
(* Unparseable timestamps *)

\* the text is missing (no such column, or None for a short line) or in none of
\* the formats parse_dt reads
Unparseable(val) ==
    \/ val.t # "str"
    \/ Len(val.s) # 2
    \/ val.s[1] \notin Range(StrptimeFormats) \cup IsoOnlyFormats

\* C23: when pickup_datetime or dropoff_datetime is missing or in none of the
\* accepted formats, either validator returns an empty record with the one
\* reason invalid_timestamp, whatever the other fields of the row hold.
C23_InvalidTimestampOnly ==
    (Called /\ (Unparseable(Get(row, "pickup_datetime", Empty))
                   \/ Unparseable(Get(row, "dropoff_datetime", Empty)))) =>
        out = Returned(EmptyDict, <<Reason("invalid_", "timestamp")>>)

\* a row whose dropoff is empty and whose latitude is out of range
C23_Witness ==
    /\ Called
    /\ ~Unparseable(Get(row, "pickup_datetime", Empty))
    /\ Get(row, "dropoff_datetime", Empty) = Empty
    /\ NumText(95, 1) \in {Get(row, "pickup_lat", Empty), Get(row, "pickup_latitude", Empty)}
    /\ out = Returned(EmptyDict, <<Reason("invalid_", "timestamp")>>)


-----------------------------------------------------------------------------
(* The tuples submitted to the store *)

\* the tuples of the current chunk have been built
ValuesPrepared == pc \in {"bulk_exec", "bulk_commit", "row_exec", "row_commit"}

\* C24: the tuple load_into_mysql submits for a record holds the record's own
\* twelve field values in the column order of trips: nothing present is
\* replaced by NULL or another value, and every scalar goes out as a scalar.
C24_TupleEqualsRecord ==
    ValuesPrepared =>
        /\ Len(values) = Len(batch)
        /\ \A i \in DOMAIN values : values[i] = EtlRowValues(batch[i])

\* what does hold: the tuples are in the order of the chunk, and vendor_id, the
\* timestamps, payment_type and every non-zero coordinate, distance and duration
\* are the record's own
C24_NonZeroFieldsKept ==
    ValuesPrepared =>
        /\ Len(values) = Len(batch)
        /\ \A i \in DOMAIN values :
              /\ values[i][12] = batch[i].payment_type
              /\ \A k \in 1 .. 9 :
                    Truthy(EtlRowValues(batch[i])[k]) => values[i][k] = EtlRowValues(batch[i])[k]

\* a record with a distance of 0.0: NULL goes out for the distance, and the
\* fare and the tip go out as 1-tuples
C24_ZeroSubmittedAsNull ==
    /\ ValuesPrepared
    /\ \E i \in DOMAIN values :
          /\ batch[i].distance_km = Flt(0, 1)
          /\ values[i][8] = None
          /\ values[i][10] = Tuple1(Flt(10, 1))
          /\ values[i][11] = Tuple1(Flt(0, 1))


-----------------------------------------------------------------------------
(* The defaults of etl_fixed.py *)

\* the row without the three columns
WithoutDefaulted(r) == [k \in DOMAIN r \ {"fare_amount", "tip_amount", "payment_type"} |-> r[k]]

\* C25: every record etl_fixed.py emits has fare_amount 10.0, tip_amount 0.0
\* and payment_type 'unknown', and what the validator returns for a row is
\* what it returns for the row without its fare_amount, tip_amount and
\* payment_type columns.
C25_DefaultsIgnoreSource ==
    (Called /\ variant = "etl_fixed") =>
        /\ out = validate_fixed(WithoutDefaulted(row))
        /\ out.kind = "returned" /\ out.rec # EmptyDict =>
              /\ out.rec.fare_amount = Flt(10, 1)
              /\ out.rec.tip_amount = Flt(0, 1)
              /\ out.rec.payment_type = Str(<<"unknown">>)

\* a row with payment_type '2' is emitted with payment_type 'unknown'
C25_Witness ==
    /\ Emitted
    /\ variant = "etl_fixed"
    /\ Get(row, "payment_type", Empty) = Str(<<"2">>)
    /\ out.rec.payment_type = Str(<<"unknown">>)
    /\ out.rec.fare_amount = Flt(10, 1)

=============================================================================
